---- MODULE Spec2Model ----
(***************************************************************************)
(* express_mcp: the in-memory dispatcher (InMemoryDispatcher.dispatch and  *)
(* dispatchStream), the HTTP gateway (McpServer.mount, POST /invoke) and   *)
(* the stdio bridge (scripts/mcp-bridge).                                  *)
(*                                                                         *)
(* Strings that the code inspects character by character (tool names,      *)
(* chunks, bodies) are sequences of one-character strings, so that         *)
(* concatenation, JSON decoding and whitespace replacement are computed.   *)
(***************************************************************************)
EXTENDS Naturals, Sequences, FiniteSets, TLC

(***************************************************************************)
(* Bounds of the model.                                                    *)
(***************************************************************************)
\* number of exchanges (POST /invoke requests) a run holds
NumExchanges == 2
\* handler operations (setHeader, writeHead, write, end) one exchange performs
MaxOps == 3

\* handler operations of the exchange the classifier runs drive
ClassifyOps == 3

\* request lines of the input a bridge session reads
MaxLines == 2
\* chunk lines of the stream the gateway answers a bridge call with
StreamLen == 2

\* layers of the app whose catalog is rebuilt while it serves
MaxLayers == 2

Exchanges == 1..NumExchanges

(***************************************************************************)
(* Program constants.                                                      *)
(***************************************************************************)
\* const timeout = options.timeout || 30000
DefaultTimeout == 30000

(***************************************************************************)
(* Values.                                                                 *)
(***************************************************************************)
\* the value of a missing property (toolName of a body without one)
Undefined == <<"undefined">>

\* chunks a handler passes to write and end; the empty chunk also stands for
\* end() without an argument (both are falsy in `if (chunk)`)
Chunks == { <<>>, <<"a">>, <<"1">> }

\* status codes a handler sets besides the initial 200
StatusChoices == { 401 }

\* timeouts a request carries; 0 stands for none given (0 and undefined are
\* both falsy in `options.timeout || 30000`)
TimeoutChoices == { 0, 5000 }

NoError == [kind |-> "none", ms |-> 0]
\* new Error("boom") thrown by a stage or passed to next(err)
HandlerError == [kind |-> "handler", ms |-> 0]

\* body values of a Dispatch Result; its stream property is "handle" when it
\* holds the streamBuffer and "none" when the property is absent
BodyUndefined == [kind |-> "undefined", text |-> <<>>]
BodyNull == [kind |-> "null", text |-> <<>>]

(***************************************************************************)
(* Route table and catalog names (SchemaResolver.toolName / safeName).     *)
(***************************************************************************)
\* the routes given to loadRoutes: a route with a middleware and a terminal
\* handler that answer freely, and a route whose handler echoes its body
Routes ==
  << [method |-> <<"G","E","T">>, path |-> <<"/","s">>, kind |-> "free", stages |-> 2],
     [method |-> <<"P","O","S","T">>, path |-> <<"/","e">>, kind |-> "echo", stages |-> 1] >>

IsWhitespace(c) == c \in { " ", "\t", "\n" }

\* `${r.method} ${r.path}`
ToolName(r) == r.method \o <<" ">> \o r.path

\* a replacement of every single whitespace character
RECURSIVE ReplaceEachWhitespace(_)
ReplaceEachWhitespace(s) ==
  IF s = <<>> THEN <<>>
  ELSE (IF IsWhitespace(Head(s)) THEN <<"_">> ELSE <<Head(s)>>)
       \o ReplaceEachWhitespace(Tail(s))

\* s.replace(/\s+/g, "_"): every maximal run of whitespace becomes one "_"
RECURSIVE ReplaceWhitespace(_)
ReplaceWhitespace(s) ==
  IF s = <<>> THEN <<>>
  ELSE IF IsWhitespace(Head(s))
       THEN IF Len(s) > 1 /\ IsWhitespace(s[2])
            THEN ReplaceWhitespace(Tail(s))
            ELSE <<"_">> \o ReplaceWhitespace(Tail(s))
       ELSE <<Head(s)>> \o ReplaceWhitespace(Tail(s))

SafeName(r) == ReplaceWhitespace(ToolName(r))

\* the predicate of this.routes.find in /invoke
RouteMatches(r, toolName) == ToolName(r) = toolName \/ SafeName(r) = toolName

\* a lookup that falls back to the first route when no route matches
FindRouteOrFirst(routes, toolName) ==
  IF \E i \in 1..Len(routes) : RouteMatches(routes[i], toolName)
  THEN CHOOSE i \in 1..Len(routes) :
         /\ RouteMatches(routes[i], toolName)
         /\ \A j \in 1..(i - 1) : ~RouteMatches(routes[j], toolName)
  ELSE 1

\* this.routes.find(...): the index of the first matching route, 0 for none
FindRoute(routes, toolName) ==
  IF \E i \in 1..Len(routes) : RouteMatches(routes[i], toolName)
  THEN CHOOSE i \in 1..Len(routes) :
         /\ RouteMatches(routes[i], toolName)
         /\ \A j \in 1..(i - 1) : ~RouteMatches(routes[j], toolName)
  ELSE 0

(***************************************************************************)
(* Route discovery (RouteIntrospector.listRoutes) and the catalog          *)
(* (SchemaResolver.toTool, McpServer.loadRoutes).                          *)
(*                                                                         *)
(* A layer of app._router.stack is a record: hasRoute tells whether        *)
(* layer.route is set, name is layer.name, stack is layer.handle.stack of  *)
(* a nested router. Of a route the model keeps its path, the keys of its   *)
(* methods object in order, and kind and stages for its handler and        *)
(* middlewares. A filter of the options is the set of (method, path)       *)
(* pairs it returns true for.                                              *)
(***************************************************************************)
\* method.toUpperCase() on the keys of route.methods
ToUpperCase(m) ==
  CASE m = "get" -> <<"G", "E", "T">>
    [] m = "post" -> <<"P", "O", "S", "T">>
    [] m = "put" -> <<"P", "U", "T">>
    [] OTHER -> <<"_", "A", "L", "L">>

\* a push without the exclude test
RECURSIVE PushWithoutExclude(_, _, _, _)
PushWithoutExclude(path, route, methods, opts) ==
  IF methods = <<>> THEN <<>>
  ELSE LET info == [method |-> ToUpperCase(Head(methods)), path |-> path,
                    kind |-> route.kind, stages |-> route.stages]
           rest == PushWithoutExclude(path, route, Tail(methods), opts)
       IN IF opts.include.configured
             /\ <<info.method, info.path>> \notin opts.include.accepts
          THEN rest
          ELSE <<info>> \o rest

\* push(path, route): the loop `for (const method of Object.keys(methods))`
\* from its entry `methods` on; an info the filters reject is skipped
RECURSIVE Push(_, _, _, _)
Push(path, route, methods, opts) ==
  IF methods = <<>> THEN <<>>
  ELSE LET info == [method |-> ToUpperCase(Head(methods)), path |-> path,
                    kind |-> route.kind, stages |-> route.stages]
           rest == Push(path, route, Tail(methods), opts)
       IN IF opts.include.configured
             /\ <<info.method, info.path>> \notin opts.include.accepts
          THEN rest
          ELSE IF opts.exclude.configured
                  /\ <<info.method, info.path>> \in opts.exclude.accepts
               THEN rest
               ELSE <<info>> \o rest

\* the loop over layerObj.handle.stack of a nested router: a sub-layer
\* counts only when it has a route
RECURSIVE NestedRoutes(_, _)
NestedRoutes(stack, opts) ==
  IF stack = <<>> THEN <<>>
  ELSE (IF Head(stack).hasRoute
        THEN Push(Head(stack).route.path, Head(stack).route,
                  Head(stack).route.methods, opts)
        ELSE <<>>)
       \o NestedRoutes(Tail(stack), opts)

\* listRoutes(options): the loop over router.stack
RECURSIVE ListRoutes(_, _)
ListRoutes(stack, opts) ==
  IF stack = <<>> THEN <<>>
  ELSE LET layer == Head(stack) IN
         (IF layer.hasRoute
          THEN Push(layer.route.path, layer.route, layer.route.methods, opts)
          ELSE IF layer.name = "router"
               THEN NestedRoutes(layer.stack, opts)
               ELSE <<>>)
         \o ListRoutes(Tail(stack), opts)

\* toTool(r): name, title and route of the tool (the schemas are the
\* resolver's defaults)
ToTool(r) ==
  [ name |-> SafeName(r), title |-> ToolName(r),
    route |-> [method |-> r.method, path |-> r.path] ]

\* a load that maps only the routes beyond the tools it holds already
LoadRoutesInPlace(this, rs) ==
  [this EXCEPT !.routes = rs,
               !.tools = [i \in 1..Len(rs) |->
                            IF i <= Len(this.tools) THEN this.tools[i]
                            ELSE ToTool(rs[i])]]

\* loadRoutes(routes): this.routes = routes; this.tools = routes.map(toTool)
LoadRoutes(this, rs) ==
  [this EXCEPT !.routes = rs,
               !.tools = [i \in 1..Len(rs) |-> ToTool(rs[i])]]

(***************************************************************************)
(* Response headers (res.setHeader, res.writeHead).                        *)
(***************************************************************************)
\* k.toLowerCase() on the header names the handlers use
ToLower(k) ==
  CASE k \in { "Content-Type", "CONTENT-TYPE" } -> "content-type"
    [] k \in { "Transfer-Encoding", "TRANSFER-ENCODING" } -> "transfer-encoding"
    [] k \in { "Upgrade", "UPGRADE" } -> "upgrade"
    [] k \in { "X-Streaming", "X-STREAMING" } -> "x-streaming"
    [] k \in { "X-Content-Stream", "X-CONTENT-STREAM" } -> "x-content-stream"
    [] OTHER -> k

\* this.headers[k.toLowerCase()] = String(v)
SetHeader(h, k, v) ==
  [n \in DOMAIN h \cup {ToLower(k)} |-> IF n = ToLower(k) THEN v ELSE h[n]]

\* this.headers[name], undefined when absent
Header(h, name) == IF name \in DOMAIN h THEN h[name] ELSE "undefined"

\* for (const [k, v] of Object.entries(headers)) this.setHeader(k, String(v))
RECURSIVE SetHeaders(_, _)
SetHeaders(h, pairs) ==
  IF pairs = <<>> THEN h
  ELSE SetHeaders(SetHeader(h, Head(pairs)[1], Head(pairs)[2]), Tail(pairs))

NoHeaders == [n \in {} |-> "undefined"]

(***************************************************************************)
(* The streaming classifier: the condition of res.write and its copy in    *)
(* res.end.                                                                *)
(***************************************************************************)
\* const isStreamingContent = options.streaming || ... in res.write
IsStreamingContent(h, streaming) ==
  \/ streaming
  \/ Header(h, "content-type") = "text/event-stream"
  \/ Header(h, "content-type") = "text/plain"
  \/ Header(h, "content-type") = "application/octet-stream"
  \/ Header(h, "transfer-encoding") = "chunked"
  \/ Header(h, "upgrade") = "websocket"
  \/ Header(h, "content-type") = "application/x-ndjson"
  \/ Header(h, "content-type") = "application/jsonlines"
  \/ Header(h, "x-streaming") = "true"
  \/ Header(h, "x-content-stream") = "true"

\* the copy in res.end with the NDJSON line lost
IsStreamingContentEndWithoutNdjson(h, streaming) ==
  \/ streaming
  \/ Header(h, "content-type") = "text/event-stream"
  \/ Header(h, "content-type") = "text/plain"
  \/ Header(h, "content-type") = "application/octet-stream"
  \/ Header(h, "transfer-encoding") = "chunked"
  \/ Header(h, "upgrade") = "websocket"
  \/ Header(h, "content-type") = "application/jsonlines"
  \/ Header(h, "x-streaming") = "true"
  \/ Header(h, "x-content-stream") = "true"

\* const isStreamingContent = options.streaming || ... in res.end
IsStreamingContentEnd(h, streaming) ==
  \/ streaming
  \/ Header(h, "content-type") = "text/event-stream"
  \/ Header(h, "content-type") = "text/plain"
  \/ Header(h, "content-type") = "application/octet-stream"
  \/ Header(h, "transfer-encoding") = "chunked"
  \/ Header(h, "upgrade") = "websocket"
  \/ Header(h, "content-type") = "application/x-ndjson"
  \/ Header(h, "content-type") = "application/jsonlines"
  \/ Header(h, "x-streaming") = "true"
  \/ Header(h, "x-content-stream") = "true"

(***************************************************************************)
(* Buffers, bodies and the promise of a dispatch.                          *)
(***************************************************************************)
\* Buffer.concat(chunks).toString()
RECURSIVE Concat(_)
Concat(chunks) ==
  IF chunks = <<>> THEN <<>> ELSE Head(chunks) \o Concat(Tail(chunks))

\* the texts JSON.parse accepts, among the texts of the model: the numbers
\* 1, 11, 111, ...; the empty text and every text holding an "a" throw
IsJSONText(t) == Len(t) > 0 /\ \A i \in 1..Len(t) : t[i] = "1"

\* a body that is never decoded
ParseBodyRaw(t) == [kind |-> "string", text |-> t]

\* try { body = JSON.parse(bodyStr) } catch { body = bodyStr }
ParseBody(t) ==
  IF IsJSONText(t) THEN [kind |-> "json", text |-> t]
  ELSE [kind |-> "string", text |-> t]

\* if (chunk): the empty string and a missing argument are falsy
Truthy(chunk) == chunk /= <<>>

\* what a PassThrough hands to its reader: Readable.push drops a chunk of
\* length 0, every other chunk is one 'data' event of its own
RECURSIVE Readable(_)
Readable(written) ==
  IF written = <<>> THEN <<>>
  ELSE IF Head(written) = <<>> THEN Readable(Tail(written))
       ELSE <<Head(written)>> \o Readable(Tail(written))

NoResult ==
  [status |-> 0, body |-> BodyUndefined, isStreaming |-> FALSE, stream |-> "none"]
PendingPromise == [state |-> "pending", value |-> NoResult, error |-> NoError]

\* resolve(v): settles a pending promise, no effect on a settled one
Resolve(p, v) ==
  IF p.state = "pending"
  THEN [state |-> "resolved", value |-> v, error |-> NoError]
  ELSE p

\* reject(err): settles a pending promise, no effect on a settled one
Reject(p, err) ==
  IF p.state = "pending"
  THEN [state |-> "rejected", value |-> NoResult, error |-> err]
  ELSE p

\* a bound that is the default whatever the options say
TimeoutOfDefault(t) == DefaultTimeout

\* options.timeout || 30000
TimeoutOf(t) == IF t = 0 THEN DefaultTimeout ELSE t

\* new Error(`Request timeout after ${timeout}ms`)
TimeoutError(t) == [kind |-> "timeout", ms |-> TimeoutOf(t)]

(***************************************************************************)
(* The synthetic response of one dispatch: the closure variables           *)
(* streamBuffer, isStreamingResponse, hasEnded, the res object, the        *)
(* promise and the timer.                                                  *)
(***************************************************************************)
\* req.push(null): the end-of-input marker of the synthetic request
EndOfInput == <<"null">>

\* the synthetic request of dispatch(method, path, payload, headers): method,
\* url, headers { "content-type": "application/json", ...headers }, and for
\* a payload that is not undefined the body and its JSON text pushed into
\* the Readable, then the end-of-input marker. A payload is held as its
\* JSON text.
SyntheticRequest(method, path, payload, headers) ==
  [ method |-> method, url |-> path,
    headers |-> [n \in {"content-type"} \cup DOMAIN headers |->
                   IF n \in DOMAIN headers THEN headers[n] ELSE "application/json"],
    body |-> payload,
    pushed |-> IF payload /= Undefined THEN <<payload, EndOfInput>>
               ELSE <<EndOfInput>> ]

\* the state right after `new Promise(...)` ran its executor up to the call
\* of the app: the request of a dispatch without payload, res as
\* constructed, the timer armed
NewExchange ==
  [ request |-> SyntheticRequest(<<>>, <<>>, Undefined, NoHeaders),
    statusCode |-> 200,
    headers |-> NoHeaders,
    bodyChunks |-> <<>>,
    stream |-> [written |-> <<>>, ended |-> FALSE],
    isStreamingResponse |-> FALSE,
    hasEnded |-> FALSE,
    promise |-> PendingPromise,
    timer |-> "armed",
    ret |-> "undefined" ]

\* before dispatch is called: no exchange yet
NoExchange == [NewExchange EXCEPT !.timer = "none", !.promise.state = "none"]

\* res.setHeader(k, v); ret is the value the last call on res returned
ResSetHeader(x, k, v) ==
  [x EXCEPT !.headers = SetHeader(x.headers, k, v), !.ret = "undefined"]

\* res.writeHead(code, headers)
ResWriteHead(x, code, pairs) ==
  [x EXCEPT !.statusCode = code, !.headers = SetHeaders(x.headers, pairs),
            !.ret = "undefined"]

\* a write that puts the chunk in front of the stream's earlier chunks
ResWriteReordered(x, chunk, streaming) ==
  IF x.hasEnded THEN [x EXCEPT !.ret = "false"]
  ELSE IF IsStreamingContent(x.headers, streaming)
       THEN [x EXCEPT !.isStreamingResponse = TRUE,
                      !.stream.written = <<chunk>> \o @,
                      !.ret = "true"]
       ELSE [x EXCEPT !.bodyChunks = Append(@, chunk), !.ret = "true"]

\* a write without the hasEnded guard
ResWriteUnguarded(x, chunk, streaming) ==
  IF IsStreamingContent(x.headers, streaming)
  THEN [x EXCEPT !.isStreamingResponse = TRUE,
                 !.stream.written = Append(@, chunk),
                 !.ret = "true"]
  ELSE [x EXCEPT !.bodyChunks = Append(@, chunk), !.ret = "true"]

\* a write that hands out the stream with its first streamed chunk
ResWriteResolving(x, chunk, streaming) ==
  IF x.hasEnded THEN [x EXCEPT !.ret = "false"]
  ELSE IF IsStreamingContent(x.headers, streaming)
       THEN [x EXCEPT !.isStreamingResponse = TRUE,
                      !.stream.written = Append(@, chunk),
                      !.promise = Resolve(@, [status |-> x.statusCode,
                                              body |-> BodyNull,
                                              isStreaming |-> TRUE,
                                              stream |-> "handle"]),
                      !.ret = "true"]
       ELSE [x EXCEPT !.bodyChunks = Append(@, chunk), !.ret = "true"]

\* res.write(chunk)
ResWrite(x, chunk, streaming) ==
  IF x.hasEnded THEN [x EXCEPT !.ret = "false"]
  ELSE IF IsStreamingContent(x.headers, streaming)
       THEN [x EXCEPT !.isStreamingResponse = TRUE,
                      !.stream.written = Append(@, chunk),
                      !.ret = "true"]
       ELSE [x EXCEPT !.bodyChunks = Append(@, chunk), !.ret = "true"]

\* the branch `if (chunk) { ... }` of res.end
EndChunk(x, chunk, streaming) ==
  IF ~Truthy(chunk) THEN x
  ELSE IF IsStreamingContentEnd(x.headers, streaming)
       THEN [x EXCEPT !.isStreamingResponse = TRUE,
                      !.stream.written = Append(@, chunk)]
       ELSE [x EXCEPT !.bodyChunks = Append(@, chunk)]

\* the branch `if (isStreamingResponse) { ... } else { ... }` of res.end
Finalize(x) ==
  IF x.isStreamingResponse
  THEN [x EXCEPT !.stream.ended = TRUE,
                 !.promise = Resolve(@, [status |-> x.statusCode,
                                         body |-> BodyNull,
                                         isStreaming |-> TRUE,
                                         stream |-> "handle"])]
  ELSE [x EXCEPT !.promise = Resolve(@, [status |-> x.statusCode,
                                         body |-> ParseBody(Concat(x.bodyChunks)),
                                         isStreaming |-> FALSE,
                                         stream |-> "none"])]

\* an end without the hasEnded guard
ResEndUnguarded(x, chunk, streaming) ==
  Finalize(EndChunk([x EXCEPT !.hasEnded = TRUE, !.ret = "undefined"],
                    chunk, streaming))

\* res.end(chunk)
ResEnd(x, chunk, streaming) ==
  IF x.hasEnded THEN [x EXCEPT !.ret = "undefined"]
  ELSE Finalize(EndChunk([x EXCEPT !.hasEnded = TRUE, !.ret = "undefined"],
                         chunk, streaming))

\* the callback of setTimeout
TimerCallback(x, timeout) ==
  IF ~x.hasEnded
  THEN [x EXCEPT !.timer = "fired", !.hasEnded = TRUE,
                 !.promise = Reject(@, TimeoutError(timeout))]
  ELSE [x EXCEPT !.timer = "fired"]

\* clearTimeout(timeoutId): no effect on a timer that fired
ClearTimer(x) == IF x.timer = "armed" THEN [x EXCEPT !.timer = "cleared"] ELSE x

\* a continuation without the branch that resolves an unanswered exchange
ContinuationWithoutEmptyResult(x, err) ==
  LET y == ClearTimer(x) IN
  IF err /= NoError THEN [y EXCEPT !.promise = Reject(@, err)] ELSE y

\* a continuation that does not look at its error argument
ContinuationIgnoringError(x, err) ==
  LET y == ClearTimer(x) IN
  IF ~y.hasEnded
  THEN [y EXCEPT !.hasEnded = TRUE,
                 !.promise = Resolve(@, [status |-> y.statusCode,
                                         body |-> BodyUndefined,
                                         isStreaming |-> FALSE,
                                         stream |-> "none"])]
  ELSE y

\* a continuation that leaves the timer armed
ContinuationKeepingTimer(x, err) ==
  LET y == x IN
  IF err /= NoError THEN [y EXCEPT !.promise = Reject(@, err)]
  ELSE IF ~y.hasEnded
       THEN [y EXCEPT !.hasEnded = TRUE,
                      !.promise = Resolve(@, [status |-> y.statusCode,
                                              body |-> BodyUndefined,
                                              isStreaming |-> FALSE,
                                              stream |-> "none"])]
       ELSE y

\* the continuation (err) => { ... } that dispatch hands to the app
Continuation(x, err) ==
  LET y == ClearTimer(x) IN
  IF err /= NoError THEN [y EXCEPT !.promise = Reject(@, err)]
  ELSE IF ~y.hasEnded
       THEN [y EXCEPT !.hasEnded = TRUE,
                      !.promise = Resolve(@, [status |-> y.statusCode,
                                              body |-> BodyUndefined,
                                              isStreaming |-> FALSE,
                                              stream |-> "none"])]
       ELSE y

(***************************************************************************)
(* Inputs of the handlers and of the clients.                              *)
(***************************************************************************)
\* a header a handler sets: the name as the handler spells it, the header
\* it means, and the value
Setting(name, canon, value) == [name |-> name, canon |-> canon, value |-> value]

\* the headers the handlers of the gateway runs set with setHeader
HeaderChoices ==
  { Setting("X-Streaming", "x-streaming", "true"),
    Setting("x-streaming", "x-streaming", "false") }

\* the header objects the handlers pass to writeHead
HeadChoices ==
  { <<>>, << Setting("X-Streaming", "x-streaming", "true") >> }

\* the headers the handlers of the classifier runs set with setHeader
WideHeaderChoices ==
  { Setting("Content-Type", "content-type", v) :
      v \in { "text/event-stream", "text/plain", "application/octet-stream",
              "application/x-ndjson", "application/jsonlines",
              "application/json", "text/plain; charset=utf-8" } }
  \cup { Setting("content-type", "content-type", "text/event-stream"),
         Setting("CONTENT-TYPE", "content-type", "application/x-ndjson"),
         Setting("Transfer-Encoding", "transfer-encoding", "chunked"),
         Setting("transfer-encoding", "transfer-encoding", "identity"),
         Setting("Upgrade", "upgrade", "websocket"),
         Setting("upgrade", "upgrade", "h2c"),
         Setting("X-Streaming", "x-streaming", "true"),
         Setting("x-streaming", "x-streaming", "false"),
         Setting("X-Content-Stream", "x-content-stream", "true"),
         Setting("x-content-stream", "x-content-stream", "false") }

\* the arguments of an invocation: JSON texts
Args == { <<"1">>, <<"1", "1">> }

\* the toolName of a request: the title and the identifier of every route,
\* a name of no route, and none at all
ToolNames ==
  { ToolName(Routes[i]) : i \in 1..Len(Routes) }
  \cup { SafeName(Routes[i]) : i \in 1..Len(Routes) }
  \cup { <<"G", "E", "T", "_", "/", "x">>, Undefined }

\* const { toolName, args, streaming, timeout } = req.body ?? {}, and under
\* http the headers of the POST /invoke request besides its content type
Requests ==
  [ present : {TRUE}, toolName : ToolNames, args : Args,
    streaming : BOOLEAN, timeout : TimeoutChoices, http : {NoHeaders} ]

NoRequest ==
  [ present |-> FALSE, toolName |-> Undefined, args |-> <<"1">>,
    streaming |-> FALSE, timeout |-> 0, http |-> NoHeaders ]

VARIABLES
  req,      \* req[e]: the POST /invoke request e (its body, and its headers
            \* under http), if a client sends it
  gw,       \* gw[e]: the gateway's handling of request e and its HTTP response
  options,  \* options[e]: the options dispatch was called with
  ex,       \* ex[e]: the synthetic response, promise and timer of dispatch e
  chain,    \* chain[e]: where the app is in the handler chain of dispatch e
  sent,     \* sent[e]: the headers the handler of e means to have set
  trace     \* trace[e]: the write and end calls of the handlers of e, in order

vars == <<req, gw, options, ex, chain, sent, trace>>

VARIABLES
  mode,     \* what the runtime does with an unhandled rejection: "throw" or "warn"
  proc,     \* the bridge process: "running", "crashed" or "exited"
  stdin,    \* the input of the bridge: all its bytes, and how many were read
  buffer,   \* let buffer = "": the unterminated tail of what was read
  tasks,    \* the calls of the stdin 'data' handler, in order of their reads
  parsed,   \* the lines handed to JSON.parse, in order
  stdout    \* the calls of process.stdout.write, in order

bvars == <<mode, proc, stdin, buffer, tasks, parsed, stdout>>

VARIABLES
  app,        \* app._router.stack: the layers of the Express app
  mcpOptions, \* the options ExpressMCP was constructed with: include, exclude
  server      \* the McpServer: its routes and its tools

cvars == <<app, mcpOptions, server>>

allvars == <<req, gw, options, ex, chain, sent, trace,
             mode, proc, stdin, buffer, tasks, parsed, stdout,
             app, mcpOptions, server>>

\* the layer app.get(path, ...), app.post(path, ...) or app.route(path) adds
RouteLayer(path, methods, kind, stages) ==
  [ hasRoute |-> TRUE, name |-> "bound dispatch",
    route |-> [path |-> path, methods |-> methods, kind |-> kind, stages |-> stages],
    stack |-> <<>> ]

\* a layer without a route: a middleware (stack empty) or, under the name
\* "router", a nested router holding the layers of stack
PlainLayer(name, stack) ==
  [ hasRoute |-> FALSE, name |-> name,
    route |-> [path |-> <<>>, methods |-> <<>>, kind |-> "none", stages |-> 0],
    stack |-> stack ]

\* an option that is not set
NotConfigured == [configured |-> FALSE, accepts |-> {}]

\* private routes = []; private tools = []
NewServer == [routes |-> <<>>, tools |-> <<>>]

\* the app of the gateway runs: express.json() and the routes of Routes, an
\* ExpressMCP without filters, init() done
Started ==
  /\ app = << PlainLayer("jsonParser", <<>>),
              RouteLayer(<<"/", "s">>, <<"get">>, "free", 2),
              RouteLayer(<<"/", "e">>, <<"post">>, "echo", 1) >>
  /\ mcpOptions = [include |-> NotConfigured, exclude |-> NotConfigured]
  /\ server = LoadRoutes(NewServer, ListRoutes(app, mcpOptions))

\* no bridge process
BridgeOff ==
  /\ mode = "throw" /\ proc = "exited"
  /\ stdin = [all |-> <<>>, pos |-> 0]
  /\ buffer = <<>> /\ tasks = <<>> /\ parsed = <<>> /\ stdout = <<>>

\* closure variables hoisted out of dispatch: one set for all calls
SharedClosure(e) == 1

\* the closure a call of dispatch creates: streamBuffer, isStreamingResponse,
\* hasEnded and res are declared inside the promise executor, one per call
Closure(e) == e

NoReply ==
  [ http |-> 0, ok |-> FALSE, result |-> BodyUndefined, status |-> 0,
    streaming |-> FALSE, error |-> NoError, notFound |-> FALSE ]

IdleGateway ==
  [ pc |-> "idle", route |-> 0, source |-> "none", pos |-> 0,
    collected |-> <<>>, lines |-> <<>>, reply |-> NoReply, ended |-> 0,
    client |-> "connected" ]

IdleChain ==
  [ state |-> "idle", kind |-> "none", stages |-> 0, stage |-> 0,
    budget |-> 0, passed |-> {} ]

NoOptions == [ streaming |-> FALSE, timeout |-> 0 ]

NothingSent == [n \in {} |-> "undefined"]

\* no dispatch yet
Quiet ==
  /\ gw = [e \in Exchanges |-> IdleGateway]
  /\ options = [e \in Exchanges |-> NoOptions]
  /\ ex = [e \in Exchanges |-> NoExchange]
  /\ chain = [e \in Exchanges |-> IdleChain]
  /\ sent = [e \in Exchanges |-> NothingSent]
  /\ trace = [e \in Exchanges |-> <<>>]

\* one client sends one request, with the default timeout
Init ==
  /\ req \in [Exchanges -> Requests \cup {NoRequest}]
  /\ \A e \in Exchanges : req[e].present <=> e = 1
  /\ req[1].timeout = 0 /\ req[1].args = <<"1">>
  /\ Quiet
  /\ BridgeOff
  /\ Started

(***************************************************************************)
(* The gateway: POST /invoke up to the call of the dispatcher.             *)
(***************************************************************************)
\* res.status(404).json({ error: "Tool not found" })
NotFoundReply == [NoReply EXCEPT !.http = 404, !.notFound = TRUE]

\* res.status(500).json({ ok: false, error: e.message })
ErrorReply(err) == [NoReply EXCEPT !.http = 500, !.error = err]

\* res.status(200).json({ ok: true, result, status [, streaming: true] })
OkReply(body, status, streaming) ==
  [NoReply EXCEPT !.http = 200, !.ok = TRUE, !.result = body,
                  !.status = status, !.streaming = streaming]

\* the options of the dispatch: dispatchStream passes streaming: true, the
\* non-streaming branch passes the timeout alone
DispatchOptions(r) == [ streaming |-> r.streaming, timeout |-> r.timeout ]

\* a gateway that hands the headers of its caller on to the dispatch
DispatchHeadersOfCaller(r) == r.http

\* the headers argument of both calls, dispatchStream(route.method,
\* route.path, args, {}, timeout) and dispatch(route.method, route.path,
\* args, {}, { timeout }): an empty object, whatever request r carries
DispatchHeaders(r) == NoHeaders

\* (this.app)(req, res, next): the app enters the first stage of the chain
StartChain(r, budget) ==
  [ state |-> "running", kind |-> r.kind, stages |-> r.stages, stage |-> 1,
    budget |-> budget, passed |-> {} ]

\* the exchange of dispatch e
X(e) == ex[Closure(e)]

\* POST /invoke: the route lookup, then either the 404 reply or the call of
\* dispatch / dispatchStream, which runs the promise executor
Invoke(e) ==
  /\ req[e].present
  /\ gw[e].pc = "idle"
  /\ LET i == FindRoute(server.routes, req[e].toolName) IN
       IF i = 0
       THEN /\ gw' = [gw EXCEPT ![e] = [@ EXCEPT !.pc = "done",
                                                 !.reply = NotFoundReply,
                                                 !.ended = @ + 1]]
            /\ UNCHANGED <<options, ex, chain>>
       ELSE /\ gw' = [gw EXCEPT ![e] = [@ EXCEPT !.pc = "awaiting", !.route = i]]
            /\ options' = [options EXCEPT ![e] = DispatchOptions(req[e])]
            /\ ex' = [ex EXCEPT ![Closure(e)] =
                       [NewExchange EXCEPT !.request =
                          SyntheticRequest(server.routes[i].method,
                                           server.routes[i].path,
                                           req[e].args,
                                           DispatchHeaders(req[e]))]]
            /\ chain' = [chain EXCEPT ![e] = StartChain(server.routes[i], MaxOps)]
  /\ UNCHANGED <<req, sent, trace, bvars, cvars>>

(***************************************************************************)
(* The stages of the handler chain acting on the synthetic response.       *)
(***************************************************************************)
\* where a write or end call put its chunk
SinkOf(x, y) ==
  IF Len(y.bodyChunks) > Len(x.bodyChunks) THEN "body"
  ELSE IF Len(y.stream.written) > Len(x.stream.written) THEN "stream"
  ELSE "none"

\* the dispatch of x was rejected by its timer
TimedOut(x) == x.promise.state = "rejected" /\ x.promise.error.kind = "timeout"

\* the record of one write or end call that took effect: x before, y after
Call(e, op, chunk, x, y) ==
  [ op |-> op, chunk |-> chunk, sink |-> SinkOf(x, y),
    sent |-> sent[e], flag |-> options[e].streaming ]

\* the calls so far, with this one added unless res refused it (write
\* returned false, end returned at its first line)
Record(e, op, chunk, x, y) ==
  IF x.hasEnded THEN trace[e] ELSE Append(trace[e], Call(e, op, chunk, x, y))

\* a stage of a free chain may act: the app has called it, now or earlier
CanAct(e) ==
  /\ chain[e].state /= "idle"
  /\ chain[e].kind = "free"
  /\ chain[e].budget > 0

Spend(e) == [chain EXCEPT ![e].budget = @ - 1]

Means(s, setting) ==
  [n \in DOMAIN s \cup {setting.canon} |->
     IF n = setting.canon THEN setting.value ELSE s[n]]

RECURSIVE MeansAll(_, _)
MeansAll(s, settings) ==
  IF settings = <<>> THEN s
  ELSE MeansAll(Means(s, Head(settings)), Tail(settings))

\* Object.entries(headers) of the object passed to writeHead
RECURSIVE Entries(_)
Entries(settings) ==
  IF settings = <<>> THEN <<>>
  ELSE << <<Head(settings).name, Head(settings).value>> >> \o Entries(Tail(settings))

\* a stage calls res.setHeader(name, value)
HandlerSetHeader(e) ==
  /\ CanAct(e)
  /\ \E h \in HeaderChoices :
       /\ ex' = [ex EXCEPT ![Closure(e)] = ResSetHeader(X(e), h.name, h.value)]
       /\ sent' = [sent EXCEPT ![e] = Means(@, h)]
  /\ chain' = Spend(e)
  /\ UNCHANGED <<req, gw, options, trace, bvars, cvars>>

\* a stage calls res.writeHead(code, headers)
HandlerWriteHead(e) ==
  /\ CanAct(e)
  /\ \E code \in StatusChoices, hs \in HeadChoices :
       /\ ex' = [ex EXCEPT ![Closure(e)] = ResWriteHead(X(e), code, Entries(hs))]
       /\ sent' = [sent EXCEPT ![e] = MeansAll(@, hs)]
  /\ chain' = Spend(e)
  /\ UNCHANGED <<req, gw, options, trace, bvars, cvars>>

\* a stage calls res.write(chunk)
HandlerWrite(e) ==
  /\ CanAct(e)
  /\ \E c \in Chunks :
       LET y == ResWrite(X(e), c, options[e].streaming) IN
         /\ ex' = [ex EXCEPT ![Closure(e)] = y]
         /\ trace' = [trace EXCEPT ![e] = Record(e, "write", c, X(e), y)]
  /\ chain' = Spend(e)
  /\ UNCHANGED <<req, gw, options, sent, bvars, cvars>>

\* a stage calls res.end(chunk), or res.end() when the chunk is empty
HandlerEnd(e) ==
  /\ CanAct(e)
  /\ \E c \in Chunks :
       LET y == ResEnd(X(e), c, options[e].streaming) IN
         /\ ex' = [ex EXCEPT ![Closure(e)] = y]
         /\ trace' = [trace EXCEPT ![e] = Record(e, "end", c, X(e), y)]
  /\ chain' = Spend(e)
  /\ UNCHANGED <<req, gw, options, sent, bvars, cvars>>

\* the running stage calls next(): the app enters the next stage, and after
\* the last stage it calls the continuation dispatch gave it
HandlerNext(e) ==
  /\ chain[e].state = "running"
  /\ chain[e].kind = "free"
  /\ IF chain[e].stage < chain[e].stages
     THEN /\ chain' = [chain EXCEPT ![e].stage = @ + 1,
                                    ![e].passed = @ \cup {chain[e].stage}]
          /\ UNCHANGED ex
     ELSE /\ chain' = [chain EXCEPT ![e].state = "finished",
                                    ![e].passed = @ \cup {chain[e].stage}]
          /\ ex' = [ex EXCEPT ![Closure(e)] = Continuation(X(e), NoError)]
  /\ UNCHANGED <<req, gw, options, sent, trace, bvars, cvars>>

\* the running stage throws or calls next(err): the app skips the remaining
\* stages and calls the continuation with the error
HandlerFail(e) ==
  /\ chain[e].state = "running"
  /\ chain[e].kind = "free"
  /\ chain' = [chain EXCEPT ![e].state = "failed"]
  /\ ex' = [ex EXCEPT ![Closure(e)] = Continuation(X(e), HandlerError)]
  /\ UNCHANGED <<req, gw, options, sent, trace, bvars, cvars>>

JsonContentType == Setting("Content-Type", "content-type", "application/json; charset=utf-8")

\* the handler of the echo route calls res.json(req.body): express sets the
\* content type and calls res.end with the JSON text
EchoJson(e) ==
  /\ chain[e].state = "running"
  /\ chain[e].kind = "echo"
  /\ chain[e].budget > 0
  /\ LET x == ResSetHeader(X(e), JsonContentType.name, JsonContentType.value)
         y == ResEnd(x, x.request.body, options[e].streaming)
     IN /\ ex' = [ex EXCEPT ![Closure(e)] = y]
        /\ trace' = [trace EXCEPT ![e] = Record(e, "end", x.request.body, x, y)]
  /\ sent' = [sent EXCEPT ![e] = Means(@, JsonContentType)]
  /\ chain' = [chain EXCEPT ![e].budget = 0]
  /\ UNCHANGED <<req, gw, options, bvars, cvars>>

\* the timer of the dispatch fires
TimerFire(e) ==
  /\ chain[e].state /= "idle"
  /\ X(e).timer = "armed"
  /\ ex' = [ex EXCEPT ![Closure(e)] = TimerCallback(X(e), options[e].timeout)]
  /\ UNCHANGED <<req, gw, options, chain, sent, trace, bvars, cvars>>

(***************************************************************************)
(* The gateway after the dispatch settled.                                 *)
(***************************************************************************)
\* the Readable dispatchStream builds from a result without a stream:
\* push(typeof body === "string" ? body : JSON.stringify(body)); push(null).
\* A chunk of length 0 and JSON.stringify(undefined) give no 'data' event;
\* JSON.stringify gives back the text of a parsed number
BodyStream(body) ==
  CASE body.kind = "undefined" -> <<>>
    [] body.kind = "null" -> << <<"n", "u", "l", "l">> >>
    [] OTHER -> IF body.text = <<>> THEN <<>> ELSE <<body.text>>

\* the chunks the stream the gateway listens to emits, and whether it ends
InnerChunks(e) ==
  IF gw[e].source = "stream" THEN Readable(X(e).stream.written)
  ELSE BodyStream(X(e).promise.value.body)

InnerEnded(e) == gw[e].source = "body" \/ X(e).stream.ended

ChunkLine(c) == [type |-> "chunk", data |-> c]
EndLine == [type |-> "end", data |-> <<>>]

\* the code after `await this.dispatcher.dispatchStream(...)` and after
\* `await this.dispatcher.dispatch(...)`, and the catch block
Resume(g, p, streaming) ==
  IF p.state = "rejected"
  THEN [g EXCEPT !.pc = "done", !.reply = ErrorReply(p.error), !.ended = @ + 1]
  ELSE IF streaming
       THEN [g EXCEPT !.pc = "relay",
                      !.source = IF p.value.isStreaming THEN "stream" ELSE "body"]
       ELSE IF p.value.isStreaming
            THEN [g EXCEPT !.pc = "collect", !.source = "stream"]
            ELSE [g EXCEPT !.pc = "done",
                           !.reply = OkReply(p.value.body, p.value.status, FALSE),
                           !.ended = @ + 1]

\* the gateway's await resumes once the promise of the dispatch is settled
GatewayResume(e) ==
  /\ gw[e].pc = "awaiting"
  /\ X(e).promise.state \in { "resolved", "rejected" }
  /\ gw' = [gw EXCEPT ![e] = Resume(@, X(e).promise, req[e].streaming)]
  /\ UNCHANGED <<req, options, ex, chain, sent, trace, bvars, cvars>>

\* stream.on("data", ...): relayed as a line, or collected
OnData(g, chunk) ==
  IF g.pc = "relay"
  THEN [g EXCEPT !.pos = @ + 1, !.lines = Append(@, ChunkLine(chunk))]
  ELSE [g EXCEPT !.pos = @ + 1, !.collected = Append(@, chunk)]

\* stream.on("end", ...): the end line and res.end(), or the single reply
OnEnd(g, status) ==
  IF g.pc = "relay"
  THEN [g EXCEPT !.pc = "done", !.lines = Append(@, EndLine), !.ended = @ + 1]
  ELSE [g EXCEPT !.pc = "done",
                 !.reply = OkReply([kind |-> "string", text |-> Concat(g.collected)],
                                   status, TRUE),
                 !.ended = @ + 1]

\* the stream emits its next chunk
StreamData(e) ==
  /\ gw[e].pc \in { "relay", "collect" }
  /\ gw[e].pos < Len(InnerChunks(e))
  /\ gw' = [gw EXCEPT ![e] = OnData(@, InnerChunks(e)[gw[e].pos + 1])]
  /\ UNCHANGED <<req, options, ex, chain, sent, trace, bvars, cvars>>

\* the stream emits 'end' after its last chunk
StreamEnd(e) ==
  /\ gw[e].pc \in { "relay", "collect" }
  /\ gw[e].pos = Len(InnerChunks(e))
  /\ InnerEnded(e)
  /\ gw' = [gw EXCEPT ![e] = OnEnd(@, X(e).promise.value.status)]
  /\ UNCHANGED <<req, options, ex, chain, sent, trace, bvars, cvars>>

(***************************************************************************)
(* One request through the gateway.                                        *)
(***************************************************************************)
Next ==
  \E e \in Exchanges :
    \/ Invoke(e)
    \/ HandlerSetHeader(e)
    \/ HandlerWriteHead(e)
    \/ HandlerWrite(e)
    \/ HandlerEnd(e)
    \/ HandlerNext(e)
    \/ HandlerFail(e)
    \/ EchoJson(e)
    \/ TimerFire(e)
    \/ GatewayResume(e)
    \/ StreamData(e)
    \/ StreamEnd(e)

Spec == Init /\ [][Next]_allvars

\* the event loop runs a due timer, a settled promise's continuation and the
\* pending events of a stream; a handler may stay silent for ever
Fairness ==
  \A e \in Exchanges :
    /\ WF_vars(Invoke(e))
    /\ WF_vars(TimerFire(e))
    /\ WF_vars(GatewayResume(e))
    /\ WF_vars(StreamData(e))
    /\ WF_vars(StreamEnd(e))

FairSpec == Init /\ [][Next]_allvars /\ Fairness

(***************************************************************************)
(* Concurrent invocations of the echo route, each with arguments of its    *)
(* own.                                                                    *)
(***************************************************************************)
\* the arguments of request e: the JSON numbers 1, 11, 111, ...
ArgsOf(e) == [i \in 1..e |-> "1"]

InitConcurrent ==
  /\ req \in [Exchanges -> [ present : {TRUE}, toolName : {ToolName(Routes[2])},
                             args : { ArgsOf(e) : e \in Exchanges },
                             streaming : BOOLEAN, timeout : {0},
                             http : {NoHeaders} ]]
  /\ \A e \in Exchanges : req[e].args = ArgsOf(e)
  /\ Quiet
  /\ BridgeOff
  /\ Started

NextConcurrent ==
  \E e \in Exchanges :
    \/ Invoke(e)
    \/ EchoJson(e)
    \/ TimerFire(e)
    \/ GatewayResume(e)
    \/ StreamData(e)
    \/ StreamEnd(e)

SpecConcurrent == InitConcurrent /\ [][NextConcurrent]_allvars

(***************************************************************************)
(* The classifier alone: dispatch called directly, its handler setting any *)
(* of the headers the classifier reads before it writes or ends.           *)
(***************************************************************************)
\* a stage calls res.setHeader with one of the headers the classifier reads
HandlerSetHeaderWide(e) ==
  /\ CanAct(e)
  /\ \E h \in WideHeaderChoices :
       /\ ex' = [ex EXCEPT ![Closure(e)] = ResSetHeader(X(e), h.name, h.value)]
       /\ sent' = [sent EXCEPT ![e] = Means(@, h)]
  /\ chain' = Spend(e)
  /\ UNCHANGED <<req, gw, options, trace, bvars, cvars>>

\* dispatcher.dispatch(method, path, payload, {}, options) was called for
\* exchange 1 and the app has entered the chain
InitClassify ==
  /\ req = [e \in Exchanges |-> NoRequest]
  /\ gw = [e \in Exchanges |-> IdleGateway]
  /\ options \in [Exchanges -> [streaming : BOOLEAN, timeout : {0}]]
  /\ \A e \in Exchanges : e /= 1 => options[e] = NoOptions
  /\ ex = [e \in Exchanges |-> IF e = 1 THEN NewExchange ELSE NoExchange]
  /\ chain = [e \in Exchanges |->
                IF e = 1 THEN StartChain(Routes[1], ClassifyOps) ELSE IdleChain]
  /\ sent = [e \in Exchanges |-> NothingSent]
  /\ trace = [e \in Exchanges |-> <<>>]
  /\ BridgeOff
  /\ Started

NextClassify ==
  \E e \in Exchanges :
    \/ HandlerSetHeaderWide(e)
    \/ HandlerWriteHead(e)
    \/ HandlerWrite(e)
    \/ HandlerEnd(e)

SpecClassify == InitClassify /\ [][NextClassify]_allvars

(***************************************************************************)
(* One request with a timeout of its own or none, of a client that may     *)
(* close its connection while the invocation is under way.                 *)
(***************************************************************************)
\* one client sends one request for the first route, streaming or not, with
\* a timeout or without
InitClient ==
  /\ req \in [Exchanges -> Requests \cup {NoRequest}]
  /\ \A e \in Exchanges : req[e].present <=> e = 1
  /\ req[1].toolName = ToolName(Routes[1]) /\ req[1].args = <<"1">>
  /\ Quiet
  /\ BridgeOff
  /\ Started

\* the client of request e closes its connection while the gateway has not
\* ended the response: /invoke registers no listener for it on req or res,
\* so no code of the gateway runs
ClientDisconnect(e) ==
  /\ gw[e].pc \in { "awaiting", "relay", "collect" }
  /\ gw[e].client = "connected"
  /\ gw' = [gw EXCEPT ![e].client = "gone"]
  /\ UNCHANGED <<req, options, ex, chain, sent, trace, bvars, cvars>>

NextClient ==
  \E e \in Exchanges :
    \/ Invoke(e)
    \/ HandlerWrite(e)
    \/ HandlerEnd(e)
    \/ HandlerNext(e)
    \/ HandlerFail(e)
    \/ TimerFire(e)
    \/ GatewayResume(e)
    \/ StreamData(e)
    \/ StreamEnd(e)
    \/ ClientDisconnect(e)

SpecClient == InitClient /\ [][NextClient]_allvars

(***************************************************************************)
(* Callers with and without credentials invoke a route guarded by a token  *)
(* check (examples/09-auth0: app.get("/api/profile", checkJwt, handler)).  *)
(***************************************************************************)
\* the Authorization header of a caller: none, a token the check knows, a
\* token it does not know
CallerHeaders ==
  { NoHeaders,
    [n \in {"authorization"} |-> "Bearer mock-jwt-user"],
    [n \in {"authorization"} |-> "Bearer stale"] }

\* checkJwt up to its decision: "none" for `!authHeader ||
\* !authHeader.startsWith("Bearer ")`, "invalid" for a token that
\* mockTokens does not hold, "user" when it calls next()
TokenOf(headers) ==
  IF "authorization" \notin DOMAIN headers THEN "none"
  ELSE IF headers["authorization"] = "Bearer mock-jwt-user" THEN "user"
       ELSE "invalid"

\* the JSON texts the guarded route answers with: the object of
\* res.status(401).json({ error, message }) and the profile of res.json
RefusalText == <<"1">>
ProfileText == <<"1", "1">>

\* the chain of the guarded route runs: checkJwt reads
\* req.headers.authorization and either answers 401 itself or calls next(),
\* which runs the handler at once; the handler answers with the profile
CheckJwt(e) ==
  /\ chain[e].state = "running"
  /\ chain[e].kind = "jwt"
  /\ chain[e].budget > 0
  /\ LET granted == TokenOf(X(e).request.headers) = "user"
         w == IF granted THEN X(e) ELSE [X(e) EXCEPT !.statusCode = 401]
         x == ResSetHeader(w, JsonContentType.name, JsonContentType.value)
         text == IF granted THEN ProfileText ELSE RefusalText
         y == ResEnd(x, text, options[e].streaming)
     IN /\ ex' = [ex EXCEPT ![Closure(e)] = y]
        /\ trace' = [trace EXCEPT ![e] = Record(e, "end", text, x, y)]
        /\ chain' = [chain EXCEPT ![e].budget = 0,
                                  ![e].stage = IF granted THEN 2 ELSE 1,
                                  ![e].passed = IF granted THEN {1} ELSE {}]
  /\ sent' = [sent EXCEPT ![e] = Means(@, JsonContentType)]
  /\ UNCHANGED <<req, gw, options, bvars, cvars>>

\* the tool of the guarded route
GuardedRoute ==
  [method |-> <<"G","E","T">>, path |-> <<"/", "p">>, kind |-> "jwt", stages |-> 2]

\* an app with express.json() and the guarded route, init() done; two
\* clients send one request each for the guarded route, with headers of
\* their own
InitCaller ==
  /\ req \in [Exchanges -> [ present : {TRUE}, toolName : {ToolName(GuardedRoute)},
                             args : Args, streaming : BOOLEAN, timeout : {0},
                             http : CallerHeaders ] \cup {NoRequest}]
  /\ \A e \in Exchanges : req[e].present <=> e <= 2
  /\ Quiet
  /\ BridgeOff
  /\ app = << PlainLayer("jsonParser", <<>>),
              RouteLayer(GuardedRoute.path, <<"get">>, "jwt", 2) >>
  /\ mcpOptions = [include |-> NotConfigured, exclude |-> NotConfigured]
  /\ server = LoadRoutes(NewServer, ListRoutes(app, mcpOptions))

NextCaller ==
  \E e \in Exchanges :
    \/ Invoke(e)
    \/ CheckJwt(e)
    \/ TimerFire(e)
    \/ GatewayResume(e)
    \/ StreamData(e)
    \/ StreamEnd(e)

SpecCaller == InitCaller /\ [][NextCaller]_allvars

(***************************************************************************)
(* The catalog of an app that changes while it serves: routes are added    *)
(* at run time, the exclude filter is replaced, and init() is run again    *)
(* (examples/05-dynamic-tools), with one invocation under way.             *)
(***************************************************************************)
\* the layers the app may get: routes with one or two methods, a path that
\* holds a run of two blanks and a path that holds "_" in its place, and a
\* nested router with a middleware and a route registered a second time
LayerChoices ==
  { RouteLayer(<<"/", "s">>, <<"get">>, "free", 1),
    RouteLayer(<<"/", "e">>, <<"post">>, "echo", 1),
    RouteLayer(<<"/", " ", " ", "b">>, <<"get">>, "echo", 1),
    RouteLayer(<<"/", "_", "b">>, <<"get", "post">>, "free", 1),
    PlainLayer("router", << PlainLayer("query", <<>>),
                            RouteLayer(<<"/", " ", " ", "b">>, <<"get">>, "free", 1) >>) }

\* include: (route) => route.method === "GET", or none
IncludeChoices ==
  { NotConfigured,
    [ configured |-> TRUE,
      accepts |-> { <<ToUpperCase("get"), p>> :
                      p \in { <<"/", "s">>, <<"/", "e">>, <<"/", " ", " ", "b">>,
                              <<"/", "_", "b">> } } ] }

\* exclude: a filter that names the routes taken out of the catalog, or none
ExcludeChoices ==
  { NotConfigured,
    [ configured |-> TRUE,
      accepts |-> { <<ToUpperCase("get"), <<"/", "s">> >>,
                    <<ToUpperCase("get"), <<"/", " ", " ", "b">> >>,
                    <<ToUpperCase("post"), <<"/", "_", "b">> >> } ] }

\* the names a client may ask for: title and identifier of every route the
\* layers can give
CatalogNames ==
  LET of(layer) ==
        ListRoutes(<<layer>>, [include |-> NotConfigured, exclude |-> NotConfigured])
  IN UNION { { ToolName(of(l)[i]) : i \in 1..Len(of(l)) }
             \cup { SafeName(of(l)[i]) : i \in 1..Len(of(l)) } : l \in LayerChoices }

\* a new express app and a new ExpressMCP, init() not yet called; one client
\* with one non-streaming request
InitCatalog ==
  /\ app = <<>>
  /\ mcpOptions \in [include : IncludeChoices, exclude : {NotConfigured}]
  /\ server = NewServer
  /\ req \in [Exchanges -> [ present : {TRUE}, toolName : CatalogNames,
                             args : { <<"1">> }, streaming : {FALSE},
                             timeout : {0}, http : {NoHeaders} ] \cup {NoRequest}]
  /\ \A e \in Exchanges : req[e].present <=> e = 1
  /\ Quiet
  /\ BridgeOff

\* app.get(path, handler), app.use(router): a layer is pushed on the stack
AppAdd ==
  /\ Len(app) < MaxLayers
  /\ \E layer \in LayerChoices : app' = Append(app, layer)
  /\ UNCHANGED <<mcpOptions, server, vars, bvars>>

\* mcp.options.exclude = (route) => ...
SetExclude ==
  /\ \E f \in ExcludeChoices :
       /\ f /= mcpOptions.exclude
       /\ mcpOptions' = [mcpOptions EXCEPT !.exclude = f]
  /\ UNCHANGED <<app, server, vars, bvars>>

\* mcp.init(): listRoutes(this.options), then loadRoutes, whose body runs
\* without a suspension
McpInit ==
  /\ server' = LoadRoutes(server, ListRoutes(app, mcpOptions))
  /\ server' /= server
  /\ UNCHANGED <<app, mcpOptions, vars, bvars>>

NextCatalog ==
  \/ AppAdd
  \/ SetExclude
  \/ McpInit
  \/ \E e \in Exchanges :
       \/ Invoke(e)
       \/ HandlerEnd(e)
       \/ EchoJson(e)
       \/ GatewayResume(e)

SpecCatalog == InitCatalog /\ [][NextCatalog]_allvars

(***************************************************************************)
(* The stdio bridge (scripts/mcp-bridge): texts.                           *)
(*                                                                         *)
(* A JSON text is written in a short form that keeps what the code looks   *)
(* at: the braces, the newline escapes inside strings, and one character   *)
(* for each property the bridge reads.                                     *)
(***************************************************************************)
\* s.split("\n"): the pieces between the newlines of s, n + 1 for n newlines
RECURSIVE SplitLines(_)
SplitLines(s) ==
  IF \A i \in 1..Len(s) : s[i] /= "\n" THEN <<s>>
  ELSE LET k == CHOOSE i \in 1..Len(s) :
                  s[i] = "\n" /\ \A j \in 1..(i - 1) : s[j] /= "\n"
       IN <<SubSeq(s, 1, k - 1)>> \o SplitLines(SubSeq(s, k + 1, Len(s)))

\* const lines = buffer.split("\n"); buffer = lines.pop() || ""
SplitBuffer(text) ==
  LET pieces == SplitLines(text) IN
    [lines |-> SubSeq(pieces, 1, Len(pieces) - 1), buffer |-> pieces[Len(pieces)]]

\* !line.trim(): the line is empty or white space
IsBlank(line) == \A i \in 1..Len(line) : IsWhitespace(line[i])

\* chunks.join("")
RECURSIVE Join(_)
Join(pieces) == IF pieces = <<>> THEN <<>> ELSE Head(pieces) \o Join(Tail(pieces))

\* JSON.stringify of the characters of a string: a newline becomes \n, a
\* backslash becomes \\
RECURSIVE Escape(_)
Escape(t) ==
  IF t = <<>> THEN <<>>
  ELSE (CASE Head(t) = "\n" -> <<"\\", "n">>
          [] Head(t) = "\\" -> <<"\\", "\\">>
          [] OTHER -> <<Head(t)>>) \o Escape(Tail(t))

\* JSON.parse of the characters of a string
RECURSIVE Unescape(_)
Unescape(t) ==
  IF t = <<>> THEN <<>>
  ELSE IF Head(t) = "\\" /\ Len(t) > 1
       THEN <<IF t[2] = "n" THEN "\n" ELSE t[2]>> \o Unescape(SubSeq(t, 3, Len(t)))
       ELSE <<Head(t)>> \o Unescape(Tail(t))

\* the text inside the braces of a JSON object, white space around it allowed
\* by JSON.parse; <<"!">> when the text is not one JSON object
Inside(text) ==
  LET keep == { i \in 1..Len(text) : ~IsWhitespace(text[i]) } IN
    IF keep = {} THEN <<"!">>
    ELSE LET a == CHOOSE i \in keep : \A j \in keep : i <= j
             b == CHOOSE i \in keep : \A j \in keep : j <= i
         IN IF b > a /\ text[a] = "{" /\ text[b] = "}"
               /\ \A i \in (a + 1)..(b - 1) : text[i] \notin { "{", "}", "\n" }
            THEN SubSeq(text, a + 1, b - 1)
            ELSE <<"!">>

(***************************************************************************)
(* Requests of the MCP client, one JSON line each.                         *)
(***************************************************************************)
\* the methods a line names, with the tool and the _streaming flag of a
\* tools/call: i initialize, l tools/list, c and s tools/call of a tool of the
\* catalog (s with _streaming), d and t tools/call of a tool that is not in
\* the catalog (t with _streaming), u a method the bridge does not know
MethodCodes == { "i", "l", "c", "s", "d", "t", "u" }

RequestIds == { "1", "2", "3" }

\* const { method, params } = request; const { name, arguments: args } = params
Request(id, code) ==
  [ id |-> id,
    method |-> CASE code = "i" -> "initialize"
                 [] code = "l" -> "tools/list"
                 [] code \in { "c", "s", "d", "t" } -> "tools/call"
                 [] OTHER -> "ping",
    name |-> CASE code \in { "c", "s" } -> ToolName(Routes[1])
               [] code \in { "d", "t" } -> <<"G", "E", "T", " ", "/", "x">>
               [] OTHER -> Undefined,
    streaming |-> code \in { "s", "t" } ]

NoBridgeRequest == [ id |-> "-", method |-> "none", name |-> Undefined, streaming |-> FALSE ]

\* the line a client writes for a request, without its newline
RequestText(id, code) == <<"{", id, code, "}">>

\* JSON.parse(line) of a request line
ParseRequest(line) ==
  LET t == Inside(line) IN
    IF Len(t) = 2 /\ t[1] \in RequestIds /\ t[2] \in MethodCodes
    THEN [ok |-> TRUE, request |-> Request(t[1], t[2])]
    ELSE [ok |-> FALSE, request |-> NoBridgeRequest]

(***************************************************************************)
(* What the gateway answers the bridge with (McpServer.mount), as the      *)
(* bytes of the HTTP response.                                             *)
(***************************************************************************)
Digit(n) == <<"0", "1", "2", "3", "4", "5", "6", "7", "8", "9">>[n + 1]

\* JSON.stringify({ type: "chunk", data }) and JSON.stringify({ type: "end" })
GatewayLineText(l) ==
  IF l.type = "chunk" THEN <<"{", "c">> \o Escape(l.data) \o <<"}">>
  ELSE <<"{", "e", "}">>

\* the body res.json gives a reply of POST /invoke: one JSON object, no
\* newline after it
ReplyText(reply) ==
  CASE reply.http = 404 -> <<"{", "4", "}">>
    [] reply.http = 500 ->
         <<"{", "5", IF reply.error.kind = "timeout" THEN "t" ELSE "h", "}">>
    [] OTHER -> <<"{", "o">> \o Escape(reply.result.text) \o <<"}">>

\* res.write(JSON.stringify(line) + "\n") for every line of a stream
RECURSIVE StreamText(_)
StreamText(lines) ==
  IF lines = <<>> THEN <<>>
  ELSE GatewayLineText(Head(lines)) \o <<"\n">> \o StreamText(Tail(lines))

\* the chunk sequences of the streams the gateway relays: a, then a newline,
\* then a again, ..., up to StreamLen chunks
ChunkSeqs ==
  { [i \in 1..n |-> IF i % 2 = 1 THEN <<"a">> ELSE <<"\n">>] : n \in 0..StreamLen }

Answer(status, text) == [status |-> status, text |-> text]

\* POST /invoke on a tool of the catalog, streaming: the chunk lines and the
\* end line
StreamAnswers ==
  { Answer(200, StreamText([i \in 1..Len(cs) |-> ChunkLine(cs[i])] \o <<EndLine>>)) :
      cs \in ChunkSeqs }

\* POST /invoke on a tool of the catalog, not streaming: the single reply
OkAnswers ==
  { Answer(200, ReplyText(OkReply([kind |-> "json", text |-> a], 200, FALSE))) :
      a \in Args }

\* the dispatch rejected: the handler failed, or the timer fired
ErrorAnswers ==
  { Answer(500, ReplyText(ErrorReply(e))) : e \in { HandlerError, TimeoutError(30000) } }

NotFoundAnswer == Answer(404, ReplyText(NotFoundReply))

\* the answers of the gateway to POST /invoke { toolName, args, streaming }
Answers(toolName, streaming) ==
  IF FindRoute(Routes, toolName) = 0 THEN { NotFoundAnswer }
  ELSE ErrorAnswers \cup (IF streaming THEN StreamAnswers ELSE OkAnswers)

\* GET /tools: res.json({ tools })
ToolsAnswer == Answer(200, <<"{", "T", Digit(Len(Routes)), "}">>)

\* JSON.parse(line) of a line of the gateway's response, as the bridge reads
\* it: data.type and data.data
ParseGatewayLine(line) ==
  LET t == Inside(line) IN
    IF t = <<"!">> \/ t = <<>> THEN [json |-> FALSE, type |-> "none", data |-> <<>>]
    ELSE CASE t[1] = "c" -> [json |-> TRUE, type |-> "chunk", data |-> Unescape(Tail(t))]
           [] t = <<"e">> -> [json |-> TRUE, type |-> "end", data |-> <<>>]
           [] t[1] = "r" -> [json |-> TRUE, type |-> "error", data |-> Unescape(Tail(t))]
           [] OTHER -> [json |-> TRUE, type |-> "undefined", data |-> <<>>]

(***************************************************************************)
(* What the bridge writes: one object per process.stdout.write.            *)
(***************************************************************************)
\* { jsonrpc, method: "notifications/progress",
\*   params: { progressToken: `stream_${requestId}`, value: { message } } }
ProgressUpdate(requestId, message) ==
  [ kind |-> "progress", id |-> "-", token |-> requestId, total |-> 0,
    text |-> message ]

\* { jsonrpc, id, result }
ResultReply(id, total, text) ==
  [ kind |-> "result", id |-> id, token |-> "-", total |-> total, text |-> text ]

\* JSON.stringify without the escapes of its strings
StringifyRaw(obj) ==
  <<"{", IF obj.kind = "progress" THEN "p" ELSE "r", obj.id, obj.token,
    Digit(obj.total)>> \o obj.text \o <<"}">>

\* JSON.stringify(obj)
Stringify(obj) ==
  <<"{", IF obj.kind = "progress" THEN "p" ELSE "r", obj.id, obj.token,
    Digit(obj.total)>> \o Escape(obj.text) \o <<"}">>

\* process.stdout.write(JSON.stringify(obj) + "\n")
Write(out, obj) == Append(out, [obj |-> obj, text |-> Stringify(obj) \o <<"\n">>])

\* JSON.parse of a line of the bridge's output, as its client reads it
ParseOutput(line) ==
  IF Len(line) >= 6 /\ line[1] = "{" /\ line[Len(line)] = "}"
     /\ \A i \in 1..Len(line) : line[i] /= "\n"
  THEN [ kind |-> IF line[2] = "p" THEN "progress" ELSE "result",
         id |-> line[3], token |-> line[4],
         total |-> CHOOSE n \in 0..9 : Digit(n) = line[5],
         text |-> Unescape(SubSeq(line, 6, Len(line) - 1)) ]
  ELSE [ kind |-> "none", id |-> "-", token |-> "-", total |-> 0, text |-> <<>> ]

\* the result of initialize: protocolVersion, capabilities, serverInfo
InitializeText == <<"i">>

\* the result of tools/list: one entry per tool listTools returned
ToolsText(count) == <<"l", Digit(count)>>

\* `[STREAMING RESPONSE - ${result.totalChunks || 0} chunks]\n${result.result}`
StreamingText(totalChunks, result) == <<"S", Digit(totalChunks), "\n">> \o result

(***************************************************************************)
(* The stdin 'data' handler and MCPServer.handleRequest.                   *)
(*                                                                         *)
(* The handler is an async function: one call of it per read, suspended at *)
(* `await server.handleRequest(request)` while an HTTP request is out.     *)
(* What runs between two suspensions runs within one turn of the event     *)
(* loop, so it is one step here.                                           *)
(***************************************************************************)
NoCall ==
  [ kind |-> "none", opened |-> FALSE, text |-> <<>>, pos |-> 0,
    buf |-> <<>>, chunks |-> <<>>, settled |-> "pending" ]

\* httpRequest / httpModule.request sent, nothing received
NewCall(kind) == [NoCall EXCEPT !.kind = kind]

\* a call of the 'data' handler with the complete lines of its read
NewTask(lines) ==
  [ lines |-> lines, at |-> 1, pc |-> "ready", request |-> NoBridgeRequest,
    call |-> NoCall ]

\* the bridge as the handler sees it
Bridge == [ proc |-> proc, tasks |-> tasks, parsed |-> parsed, stdout |-> stdout ]

\* the catch block of the 'data' handler: `request` is declared inside the
\* try block, so `request?.id` throws a ReferenceError before anything is
\* written; the async handler rejects, nothing handles the rejection, and the
\* runtime either ends the process or goes on without this call of the handler
CatchBlock(b, t) ==
  IF mode = "throw"
  THEN [b EXCEPT !.proc = "crashed", !.tasks[t].pc = "aborted",
                 !.tasks[t].call = NoCall]
  ELSE [b EXCEPT !.tasks[t].pc = "aborted", !.tasks[t].call = NoCall]

\* process.stdout.write(JSON.stringify(reply) + "\n"), then the next line
Replied(b, t, id, total, text) ==
  [b EXCEPT !.stdout = Write(@, ResultReply(id, total, text)),
            !.tasks[t].at = @ + 1, !.tasks[t].pc = "ready",
            !.tasks[t].call = NoCall]

\* await this.bridge.listTools() / invokeTool / invokeToolWithStdioStreaming
Await(b, t, request, kind) ==
  [b EXCEPT !.tasks[t].pc = "awaiting", !.tasks[t].request = request,
            !.tasks[t].call = NewCall(kind)]

\* handleRequest(request) up to its first await, or to its return or throw
HandleRequest(b, t, request) ==
  CASE request.method = "initialize" -> Replied(b, t, request.id, 0, InitializeText)
    [] request.method = "tools/list" -> Await(b, t, request, "tools")
    [] request.method = "tools/call" ->
         Await(b, t, request, IF request.streaming THEN "stream" ELSE "invoke")
    [] OTHER -> CatchBlock(b, t)

\* the body of `for (const line of lines)` for the line the task is at
Step(b, t) ==
  LET line == b.tasks[t].lines[b.tasks[t].at] IN
    IF IsBlank(line) THEN [b EXCEPT !.tasks[t].at = @ + 1]
    ELSE LET b1 == [b EXCEPT !.parsed = Append(@, line)]
             r == ParseRequest(line)
         IN IF r.ok THEN HandleRequest(b1, t, r.request) ELSE CatchBlock(b1, t)

\* the loop over the lines of task t, until it is suspended, over or aborted
RECURSIVE RunTask(_, _)
RunTask(b, t) ==
  IF b.proc /= "running" \/ b.tasks[t].pc /= "ready" THEN b
  ELSE IF b.tasks[t].at > Len(b.tasks[t].lines)
       THEN [b EXCEPT !.tasks[t].pc = "done"]
       ELSE RunTask(Step(b, t), t)

\* the bridge after a step of the handler
Becomes(b) ==
  /\ proc' = b.proc
  /\ tasks' = b.tasks
  /\ parsed' = b.parsed
  /\ stdout' = b.stdout

\* stdin 'data': buffer += chunk, the split, and the loop over the lines. A
\* read without a complete line runs no loop and leaves no task
StdinData ==
  /\ proc = "running"
  /\ stdin.pos < Len(stdin.all)
  /\ \E n \in 1..(Len(stdin.all) - stdin.pos) :
       LET chunk == SubSeq(stdin.all, stdin.pos + 1, stdin.pos + n)
           sb == SplitBuffer(buffer \o chunk)
       IN /\ stdin' = [stdin EXCEPT !.pos = @ + n]
          /\ buffer' = sb.buffer
          /\ IF sb.lines = <<>> THEN UNCHANGED <<proc, tasks, parsed, stdout>>
             ELSE Becomes(RunTask([Bridge EXCEPT !.tasks = Append(@, NewTask(sb.lines))],
                                  Len(tasks) + 1))
  /\ UNCHANGED <<mode, vars, cvars>>

\* stdin 'end': process.exit(0)
StdinEnd ==
  /\ proc = "running"
  /\ stdin.pos = Len(stdin.all)
  /\ proc' = "exited"
  /\ UNCHANGED <<mode, stdin, buffer, tasks, parsed, stdout, vars, cvars>>

(***************************************************************************)
(* The HTTP requests of the bridge (httpRequest and                        *)
(* invokeToolWithStdioStreaming) and the rest of handleRequest.            *)
(***************************************************************************)
Awaits(t, kinds) ==
  /\ proc = "running"
  /\ t \in 1..Len(tasks)
  /\ tasks[t].pc = "awaiting"
  /\ tasks[t].call.kind \in kinds

\* tools.map(...) of the tools GET /tools answered with
ListedTools(text) == CHOOSE n \in 0..9 : Digit(n) = Inside(text)[2]

\* the result property of the body of a 200 reply of POST /invoke
ResultOf(text) == Unescape(Tail(Inside(text)))

\* httpRequest settled without a response: req 'error' or req 'timeout'
NoAnswer == Answer(0, <<>>)

\* what GET /tools may be answered with: the answer of the gateway, an error
\* status, a 200 whose body is not JSON
ToolsAnswers ==
  { ToolsAnswer, Answer(500, <<"{", "x", "}">>), Answer(200, <<"a">>) }

\* listTools without its try / catch: a rejected httpRequest is thrown on
ListToolsWithoutCatch(a) ==
  IF a.status = 0 \/ a.status >= 400 THEN [thrown |-> TRUE, count |-> 0]
  ELSE [thrown |-> FALSE,
        count |-> IF Len(Inside(a.text)) = 2 /\ Inside(a.text)[1] = "T"
                  THEN ListedTools(a.text) ELSE 0]

\* listTools() on the outcome a of its httpRequest: httpRequest rejects
\* without a response and on a status of 400 or more, and the catch block
\* returns []; a body that is not JSON resolves as { body }, whose tools
\* are undefined, so `response.tools || []` is [] as well. The result is
\* the number of tools returned; listTools never throws
ListTools(a) ==
  IF a.status = 0 \/ a.status >= 400 THEN [thrown |-> FALSE, count |-> 0]
  ELSE [thrown |-> FALSE,
        count |-> IF Len(Inside(a.text)) = 2 /\ Inside(a.text)[1] = "T"
                  THEN ListedTools(a.text) ELSE 0]

\* handleRequest after `await this.bridge.listTools()`: the reply with the
\* tools, or the throw
Listed(b, t, r) ==
  IF r.thrown THEN CatchBlock(b, t)
  ELSE RunTask(Replied(b, t, b.tasks[t].request.id, 0, ToolsText(r.count)), t)

\* httpRequest gets its response: res 'end' with the whole body. A status of
\* 400 or more rejects, and invokeTool throws it on to the catch block
HttpRespond(t) ==
  /\ Awaits(t, { "tools", "invoke" })
  /\ LET id == tasks[t].request.id IN
       IF tasks[t].call.kind = "tools"
       THEN \E a \in ToolsAnswers : Becomes(Listed(Bridge, t, ListTools(a)))
       ELSE \E a \in Answers(tasks[t].request.name, FALSE) :
              IF a.status >= 400
              THEN Becomes(CatchBlock(Bridge, t))
              ELSE Becomes(RunTask(Replied(Bridge, t, id, 0, ResultOf(a.text)), t))
  /\ UNCHANGED <<mode, stdin, buffer, vars, cvars>>

\* req 'error' or req 'timeout' before a response: the gateway is not there.
\* listTools answers [] then, the calls of a tool throw
HttpFail(t) ==
  /\ Awaits(t, { "tools", "invoke", "stream" })
  /\ ~tasks[t].call.opened
  /\ IF tasks[t].call.kind = "tools"
     THEN Becomes(Listed(Bridge, t, ListTools(NoAnswer)))
     ELSE Becomes(CatchBlock(Bridge, t))
  /\ UNCHANGED <<mode, stdin, buffer, vars, cvars>>

\* the callback of httpModule.request: the response of the streaming call
\* begins, whatever its status
StreamOpen(t) ==
  /\ Awaits(t, { "stream" })
  /\ ~tasks[t].call.opened
  /\ \E a \in Answers(tasks[t].request.name, TRUE) :
       tasks' = [tasks EXCEPT ![t].call.opened = TRUE, ![t].call.text = a.text]
  /\ UNCHANGED <<mode, proc, stdin, buffer, parsed, stdout, vars, cvars>>

\* resolve / reject of the promise of invokeToolWithStdioStreaming
Settle(c, how) == IF c.settled = "pending" THEN [c EXCEPT !.settled = how] ELSE c

\* `for (const line of lines)` of res.on('data'): a progress notification
\* per chunk line, the promise settled at an end or error line (the loop
\* returns there), a line that is not JSON kept as a chunk
RECURSIVE ProcessLines(_, _, _, _)
ProcessLines(c, out, requestId, lines) ==
  IF lines = <<>> THEN [call |-> c, out |-> out]
  ELSE LET d == ParseGatewayLine(Head(lines)) IN
    CASE IsBlank(Head(lines)) -> ProcessLines(c, out, requestId, Tail(lines))
      [] ~IsBlank(Head(lines)) /\ ~d.json ->
           ProcessLines([c EXCEPT !.chunks = Append(@, Head(lines))], out,
                        requestId, Tail(lines))
      [] ~IsBlank(Head(lines)) /\ d.type = "chunk" ->
           ProcessLines([c EXCEPT !.chunks = Append(@, d.data)],
                        Write(out, ProgressUpdate(requestId, d.data)),
                        requestId, Tail(lines))
      [] ~IsBlank(Head(lines)) /\ d.type = "end" ->
           [call |-> Settle(c, "resolved"), out |-> out]
      [] ~IsBlank(Head(lines)) /\ d.type = "error" ->
           [call |-> Settle(c, "rejected"), out |-> out]
      [] OTHER -> ProcessLines(c, out, requestId, Tail(lines))

\* handleRequest after `await invokeToolWithStdioStreaming(...)`: the reply
\* with the text of the streamed result, or the throw
Resumed(b, t) ==
  LET c == b.tasks[t].call IN
    CASE c.settled = "resolved" ->
           RunTask(Replied(b, t, b.tasks[t].request.id, Len(c.chunks),
                           StreamingText(Len(c.chunks), Join(c.chunks))), t)
      [] c.settled = "rejected" -> CatchBlock(b, t)
      [] OTHER -> b

\* where a 'data' event of the response may end: inside the first line,
\* after a line, at the end of the body
CutPoints(text) ==
  { 1, Len(text) } \cup { i \in 1..Len(text) : text[i] = "\n" }

\* res 'data' of the streaming call
BridgeResData(t) ==
  /\ Awaits(t, { "stream" })
  /\ tasks[t].call.opened
  /\ \E q \in CutPoints(tasks[t].call.text) :
       /\ q > tasks[t].call.pos
       /\ LET c == tasks[t].call
              sb == SplitBuffer(c.buf \o SubSeq(c.text, c.pos + 1, q))
              r == ProcessLines([c EXCEPT !.pos = q, !.buf = sb.buffer], stdout,
                                tasks[t].request.id, sb.lines)
          IN Becomes(Resumed([Bridge EXCEPT !.tasks[t].call = r.call,
                                            !.stdout = r.out], t))
  /\ UNCHANGED <<mode, stdin, buffer, vars, cvars>>

\* res 'end' of the streaming call: what is left in the buffer is a chunk
BridgeResEnd(t) ==
  /\ Awaits(t, { "stream" })
  /\ tasks[t].call.opened
  /\ tasks[t].call.pos = Len(tasks[t].call.text)
  /\ LET c == tasks[t].call
         c1 == IF IsBlank(c.buf) THEN c ELSE [c EXCEPT !.chunks = Append(@, c.buf)]
     IN Becomes(Resumed([Bridge EXCEPT !.tasks[t].call = Settle(c1, "resolved")], t))
  /\ UNCHANGED <<mode, stdin, buffer, vars, cvars>>

(***************************************************************************)
(* A session of the bridge.                                                *)
(***************************************************************************)
\* the lines a client may write as its k-th line: a request with id k, a
\* line cut before its closing brace, a blank line
LineChoices(k) ==
  { RequestText(Digit(k), m) : m \in MethodCodes }
  \cup { <<"{", Digit(k), "i">>, <<" ">> }

RECURSIVE InputText(_, _)
InputText(lines, terminated) ==
  IF lines = <<>> THEN <<>>
  ELSE IF Len(lines) = 1 /\ ~terminated THEN Head(lines)
       ELSE Head(lines) \o <<"\n">> \o InputText(Tail(lines), terminated)

\* the inputs of a session: up to MaxLines lines, the last one with or
\* without its newline
Inputs ==
  { InputText(ls, term) :
      ls \in UNION { { f \in [1..n -> UNION { LineChoices(k) : k \in 1..n }] :
                         \A k \in 1..n : f[k] \in LineChoices(k) } : n \in 1..MaxLines },
      term \in BOOLEAN }

InitBridge ==
  /\ mode \in { "throw", "warn" }
  /\ proc = "running"
  /\ stdin \in { [all |-> text, pos |-> 0] : text \in Inputs }
  /\ buffer = <<>> /\ tasks = <<>> /\ parsed = <<>> /\ stdout = <<>>
  /\ req = [e \in Exchanges |-> NoRequest]
  /\ Quiet
  /\ Started

NextBridge ==
  \/ StdinData
  \/ StdinEnd
  \/ \E t \in 1..MaxLines :
       \/ HttpRespond(t)
       \/ HttpFail(t)
       \/ StreamOpen(t)
       \/ BridgeResData(t)
       \/ BridgeResEnd(t)

SpecBridge == InitBridge /\ [][NextBridge]_allvars

\* the event loop delivers what was read and what the gateway sent; a
\* request of the bridge gets its response or its error
FairnessBridge ==
  /\ WF_allvars(StdinData)
  /\ \A t \in 1..MaxLines :
       /\ WF_allvars(HttpRespond(t) \/ HttpFail(t))
       /\ WF_allvars(StreamOpen(t) \/ HttpFail(t))
       /\ WF_allvars(BridgeResData(t))
       /\ WF_allvars(BridgeResEnd(t))

FairSpecBridge == InitBridge /\ [][NextBridge]_allvars /\ FairnessBridge

(***************************************************************************)
(* Sessions of a client that sends well-formed requests of the methods the *)
(* bridge knows, for tools of the catalog.                                 *)
(***************************************************************************)
KnownCodes == { "i", "l", "c", "s" }

InputsOfKnown ==
  { InputText(ls, term) :
      ls \in UNION { { f \in [1..n -> { RequestText(Digit(k), m) :
                                          k \in 1..n, m \in KnownCodes }] :
                         \A k \in 1..n : f[k][2] = Digit(k) } : n \in 1..MaxLines },
      term \in BOOLEAN }

\* the runtime goes on after an unhandled rejection: what a session that
\* ends there has written is the beginning of what this one writes
InitBridgeKnown ==
  /\ mode = "warn"
  /\ proc = "running"
  /\ stdin \in { [all |-> text, pos |-> 0] : text \in InputsOfKnown }
  /\ buffer = <<>> /\ tasks = <<>> /\ parsed = <<>> /\ stdout = <<>>
  /\ req = [e \in Exchanges |-> NoRequest]
  /\ Quiet
  /\ Started

SpecBridgeKnown == InitBridgeKnown /\ [][NextBridge]_allvars

(***************************************************************************)
(* Vocabulary of the properties.                                           *)
(***************************************************************************)
\* the chunks of the calls of e that took effect, in call order: the chunk
\* of every write, and the chunk of end when it has one
RECURSIVE ChunksOf(_)
ChunksOf(calls) ==
  IF calls = <<>> THEN <<>>
  ELSE IF Head(calls).op = "write" \/ Head(calls).chunk /= <<>>
       THEN <<Head(calls).chunk>> \o ChunksOf(Tail(calls))
       ELSE ChunksOf(Tail(calls))

NonEmptyChunk(c) == c /= <<>>

\* one {type:"chunk"} line per chunk
LinesOf(chunks) == [i \in 1..Len(chunks) |-> [type |-> "chunk", data |-> chunks[i]]]

RECURSIVE Joined(_)
Joined(chunks) ==
  IF chunks = <<>> THEN <<>> ELSE Head(chunks) \o Joined(Tail(chunks))

IsPrefix(s, t) == Len(s) <= Len(t) /\ \A i \in 1..Len(s) : s[i] = t[i]

\* the handler's end call finalized exchange e and settled its dispatch
EndedByHandler(e) ==
  /\ ex[e].promise.state = "resolved"
  /\ \E i \in 1..Len(trace[e]) : trace[e][i].op = "end"

\* the request names a route of the catalog, by title or by identifier
NamesKnownTool(e) ==
  /\ req[e].present
  /\ \E i \in 1..Len(Routes) :
       \/ req[e].toolName = Routes[i].method \o <<" ">> \o Routes[i].path
       \/ req[e].toolName = Routes[i].method \o <<"_">> \o Routes[i].path

(***************************************************************************)
(* C1. A streaming invocation whose handler writes c1..cn and then ends    *)
(* (the dispatch neither failed nor timed out before) is answered by one   *)
(* chunk line per non-empty chunk, in write order, followed by exactly one *)
(* end line and nothing else; while the relay runs the lines written are a *)
(* prefix of these. An empty chunk gives no line.                          *)
(***************************************************************************)
C1_StreamingLinesInOrder ==
  \A e \in Exchanges :
    (req[e].streaming /\ EndedByHandler(e)) =>
      LET expected == LinesOf(SelectSeq(ChunksOf(trace[e]), NonEmptyChunk)) IN
        /\ gw[e].pc = "relay" => IsPrefix(gw[e].lines, expected)
        /\ gw[e].pc = "done" =>
             /\ gw[e].lines = expected \o << [type |-> "end", data |-> <<>>] >>
             /\ gw[e].reply = NoReply
             /\ gw[e].ended = 1
        /\ gw[e].pc \in { "awaiting", "relay", "done" }

\* a streaming invocation answered by the lines a, 1, end
C1_Witness ==
  \E e \in Exchanges :
    /\ req[e].streaming /\ EndedByHandler(e) /\ gw[e].pc = "done"
    /\ gw[e].lines = << [type |-> "chunk", data |-> <<"a">>],
                        [type |-> "chunk", data |-> <<"1">>],
                        [type |-> "end", data |-> <<>>] >>

\* C1 as stated: exactly n chunk lines for n writes, then the end line
C1_OneLinePerWrite ==
  \A e \in Exchanges :
    (req[e].streaming /\ EndedByHandler(e) /\ gw[e].pc = "done") =>
      gw[e].lines = LinesOf(ChunksOf(trace[e])) \o << [type |-> "end", data |-> <<>>] >>

(***************************************************************************)
(* C2. A non-streaming invocation whose handler writes c1..cn and then     *)
(* ends is answered by one reply {ok:true} whose result is the text        *)
(* c1..cn, JSON-decoded in the buffered variant when it is valid JSON.     *)
(***************************************************************************)
C2_ReplyIsConcatenation ==
  \A e \in Exchanges :
    (~req[e].streaming /\ EndedByHandler(e) /\ gw[e].pc = "done") =>
      /\ gw[e].reply.http = 200 /\ gw[e].reply.ok /\ gw[e].ended = 1
      /\ gw[e].reply.result.text = Joined(ChunksOf(trace[e]))
      /\ ~gw[e].reply.streaming =>
           gw[e].reply.result.kind =
             IF Joined(ChunksOf(trace[e])) \in { <<"1">>, <<"1", "1">>, <<"1", "1", "1">> }
             THEN "json" ELSE "string"

(***************************************************************************)
(* C4. When the timer fires before the response is finalized the dispatch  *)
(* rejects with the timeout error; from then on no call of the abandoned   *)
(* handler appends to the body or the stream, takes effect or changes the  *)
(* outcome, a write returns false, and the caller gets the timeout reply   *)
(* and nothing else.                                                       *)
(***************************************************************************)
C4_TimeoutDiscardsLateWrites ==
  [][ \A e \in Exchanges :
        /\ (ex[e].timer = "armed" /\ ex'[e].timer = "fired" /\ ~ex[e].hasEnded) =>
             /\ ex'[e].promise.state = "rejected"
             /\ ex'[e].promise.error = [kind |-> "timeout", ms |-> 30000]
        /\ (ex[e].promise.state = "rejected" /\ ex[e].promise.error.kind = "timeout") =>
             /\ ex'[e].bodyChunks = ex[e].bodyChunks
             /\ ex'[e].stream = ex[e].stream
             /\ ex'[e].promise = ex[e].promise
             /\ trace'[e] = trace[e]
             /\ ex'[e] /= ex[e] => ex'[e].ret /= "true"
             /\ gw'[e].lines = <<>> /\ gw'[e].collected = <<>>
             /\ gw'[e].pc \in { "awaiting", "done" }
             /\ gw'[e].pc = "done" =>
                  /\ gw'[e].reply.http = 500 /\ ~gw'[e].reply.ok
                  /\ gw'[e].reply.error.kind = "timeout"
                  /\ gw'[e].ended = 1
    ]_vars

\* a write refused after the timeout, the caller holding the timeout reply
C4_Witness ==
  \E e \in Exchanges :
    /\ ex[e].promise.state = "rejected" /\ ex[e].promise.error.kind = "timeout"
    /\ ex[e].ret = "false"
    /\ ex[e].bodyChunks /= <<>>
    /\ gw[e].pc = "done" /\ gw[e].reply.error.kind = "timeout"

(***************************************************************************)
(* C6. Every streaming invocation of a known tool is answered by lines     *)
(* whose last one is the only terminal line, {type:"end"} or               *)
(* {type:"error"}, also when the dispatch fails or times out.              *)
(***************************************************************************)
C6_StreamEndsWithTerminalLine ==
  \A e \in Exchanges :
    (req[e].streaming /\ NamesKnownTool(e) /\ gw[e].pc = "done") =>
      /\ gw[e].lines /= <<>>
      /\ gw[e].lines[Len(gw[e].lines)].type \in { "end", "error" }
      /\ \A i \in 1..(Len(gw[e].lines) - 1) : gw[e].lines[i].type = "chunk"
      /\ gw[e].reply = NoReply

(***************************************************************************)
(* C7. A request whose toolName is neither the title nor the identifier of *)
(* a route gets the 404 'Tool not found' reply and nothing else: no        *)
(* exchange is created, no timer armed, no stage run.                      *)
(***************************************************************************)
C7_UnknownToolNotFound ==
  \A e \in Exchanges :
    (req[e].present /\ ~NamesKnownTool(e)) =>
      /\ ex[e].promise.state = "none" /\ ex[e].timer = "none"
      /\ chain[e].state = "idle" /\ chain[e].stage = 0
      /\ trace[e] = <<>>
      /\ gw[e].pc \in { "idle", "done" }
      /\ gw[e].pc = "done" =>
           /\ gw[e].reply.http = 404 /\ gw[e].reply.notFound
           /\ gw[e].reply.error = NoError
           /\ gw[e].lines = <<>> /\ gw[e].ended = 1

\* a request without toolName answered 404
C7_Witness ==
  \E e \in Exchanges :
    /\ req[e].toolName = Undefined
    /\ gw[e].pc = "done" /\ gw[e].reply.http = 404

(***************************************************************************)
(* C8. Stage k+1 runs only after stage k called next() without an error;   *)
(* a stage that does not call next(), or fails, keeps every later stage    *)
(* from running; the error of a failing stage rejects the dispatch unless  *)
(* the dispatch is settled already (response finalized, or timed out).     *)
(***************************************************************************)
C8_StagesInOrder ==
  /\ [](\A e \in Exchanges :
          /\ \A k \in 2..chain[e].stage : (k - 1) \in chain[e].passed
          /\ chain[e].state = "failed" => chain[e].stage \notin chain[e].passed)
  /\ [][ \A e \in Exchanges :
           /\ chain'[e].stage /= chain[e].stage =>
                /\ chain[e].state \in { "idle", "running" }
                /\ chain'[e].stage = chain[e].stage + 1
                /\ chain[e].state = "running" => chain[e].stage \in chain'[e].passed
           /\ chain[e].state \in { "failed", "finished" } =>
                chain'[e].state = chain[e].state
           /\ (chain[e].state = "running" /\ chain'[e].state = "failed") =>
                ex'[e].promise =
                  IF ex[e].promise.state = "pending"
                  THEN [state |-> "rejected", value |-> NoResult,
                        error |-> [kind |-> "handler", ms |-> 0]]
                  ELSE ex[e].promise
     ]_vars

\* the second stage failed after the first passed, and the dispatch rejected
C8_Witness ==
  \E e \in Exchanges :
    /\ chain[e].state = "failed" /\ chain[e].stage = 2 /\ chain[e].passed = {1}
    /\ ex[e].promise.state = "rejected" /\ ex[e].promise.error.kind = "handler"

\* C8 as stated: a failing stage always rejects the dispatch with its error
C8_FailureAlwaysRejects ==
  \A e \in Exchanges :
    chain[e].state = "failed" =>
      /\ ex[e].promise.state = "rejected"
      /\ ex[e].promise.error.kind = "handler"

(***************************************************************************)
(* C9. All chunks of one exchange go to the sink the first one went to,    *)
(* stream or body, whatever the handler does to the headers in between.    *)
(***************************************************************************)
C9_ClassificationSticky ==
  \A e \in Exchanges :
    \A i, j \in 1..Len(trace[e]) :
      (i < j /\ trace[e][i].sink /= "none" /\ trace[e][j].sink /= "none") =>
        trace[e][j].sink = trace[e][i].sink

(***************************************************************************)
(* C3. With several dispatches in flight, the exchange, the stream lines   *)
(* and the reply of each one are built from its own arguments and its own  *)
(* handler's calls only: nothing of another exchange shows in them.        *)
(***************************************************************************)
C3_ExchangesIsolated ==
  \A e \in Exchanges :
    LET mine == req[e].args
        ended == \E i \in 1..Len(trace[e]) : trace[e][i].op = "end" IN
      /\ gw[e].pc = "idle" =>
           ex[e].promise.state = "none" /\ ex[e].timer = "none"
      /\ gw[e].pc /= "idle" => ex[e].promise.state /= "none"
      /\ \A i \in 1..Len(ex[e].bodyChunks) : ex[e].bodyChunks[i] = mine
      /\ \A i \in 1..Len(ex[e].stream.written) : ex[e].stream.written[i] = mine
      /\ Len(ex[e].bodyChunks) + Len(ex[e].stream.written) = Len(trace[e])
      /\ DOMAIN ex[e].headers = DOMAIN sent[e]
      /\ ex[e].hasEnded <=> (ended \/ ex[e].timer = "fired")
      /\ ex[e].stream.ended <=> (ended /\ req[e].streaming)
      /\ ex[e].promise.state = "resolved" => ended
      /\ ex[e].promise.state = "rejected" => ~ended \/ ex[e].timer = "fired"
      /\ \A i \in 1..Len(gw[e].lines) :
           gw[e].lines[i].type = "chunk" => gw[e].lines[i].data = mine
      /\ (gw[e].pc = "done" /\ gw[e].reply.ok) =>
           gw[e].reply.result = [kind |-> "json", text |-> mine]
      /\ (gw[e].pc = "done" /\ ex[e].promise.state = "resolved" /\ req[e].streaming) =>
           gw[e].lines = << [type |-> "chunk", data |-> mine],
                            [type |-> "end", data |-> <<>>] >>

\* two invocations in flight at once: the first settled and not yet answered
\* while the second, started after it, is already relaying its own echo
C3_Witness ==
  /\ gw[1].pc = "awaiting" /\ ex[1].promise.state = "resolved"
  /\ ex[1].bodyChunks = << <<"1">> >>
  /\ gw[2].pc = "relay"
  /\ gw[2].lines = << [type |-> "chunk", data |-> <<"1", "1">>] >>

(***************************************************************************)
(* C5. Every non-streaming invocation of a known tool eventually gets its  *)
(* HTTP reply, and never a second one, whatever the handlers do; once the  *)
(* promise of a dispatch is settled it stays as it is.                     *)
(***************************************************************************)
C5_OneReplyAlways ==
  /\ \A e \in Exchanges :
       (NamesKnownTool(e) /\ ~req[e].streaming) ~>
         (gw[e].pc = "done" /\ gw[e].reply.http \in { 200, 500 })
  /\ [](\A e \in Exchanges : gw[e].ended <= 1)
  /\ [](\A e \in Exchanges : gw[e].pc = "done" => gw[e].ended = 1)
  /\ [][ \A e \in Exchanges :
           /\ ex[e].promise.state \in { "resolved", "rejected" } =>
                ex'[e].promise = ex[e].promise
           /\ gw[e].pc = "done" => gw'[e] = gw[e]
     ]_vars

\* a chain that completed without responding, answered with an empty result
C5_Witness ==
  \E e \in Exchanges :
    /\ ~req[e].streaming /\ chain[e].state = "finished"
    /\ ex[e].timer = "cleared"
    /\ gw[e].pc = "done" /\ gw[e].reply.ok
    /\ gw[e].reply.result.kind = "undefined"

C11_FinalizedIsAbsorbing ==
  [][ \A e \in Exchanges :
        (\E i \in 1..Len(trace[e]) : trace[e][i].op = "end") =>
          /\ ex[e].hasEnded /\ ex'[e].hasEnded
          /\ ex'[e].bodyChunks = ex[e].bodyChunks
          /\ ex'[e].stream = ex[e].stream
          /\ ex'[e].promise = ex[e].promise
          /\ ex[e].promise.state /= "pending"
          /\ trace'[e] = trace[e]
          /\ ex'[e].ret \in { "undefined", "false" }
    ]_vars

\* a write refused after end(chunk) resolved the dispatch with that chunk
C11_Witness ==
  \E e \in Exchanges :
    /\ Len(trace[e]) = 1 /\ trace[e][1].op = "end" /\ trace[e][1].chunk = <<"1">>
    /\ ex[e].ret = "false"
    /\ ex[e].promise.state = "resolved"
    /\ ex[e].promise.value.body = [kind |-> "json", text |-> <<"1">>]
    /\ chain[e].budget = 0

(***************************************************************************)
(* C12. On every exchange that is not finalized, with whatever was written *)
(* and whatever headers are set, end(chunk) leaves the same Dispatch       *)
(* Result as write(chunk) followed by end(): the same promise (variant,    *)
(* status, body), the same headers, the same text in the body chunks and   *)
(* in the stream, the stream ended alike.                                  *)
(***************************************************************************)
C12_EndChunkIsWriteThenEnd ==
  \A e \in Exchanges :
    (ex[e].promise.state /= "none" /\ ~ex[e].hasEnded) =>
      \A c \in Chunks :
        LET s == options[e].streaming
            y == ResEnd(ex[e], c, s)
            z == ResEnd(ResWrite(ex[e], c, s), <<>>, s)
        IN /\ y.promise = z.promise
           /\ y.statusCode = z.statusCode
           /\ y.headers = z.headers
           /\ Joined(y.bodyChunks) = Joined(z.bodyChunks)
           /\ Joined(y.stream.written) = Joined(z.stream.written)
           /\ y.stream.ended = z.stream.ended

(***************************************************************************)
(* C13. A Dispatch Result a dispatch resolved with is either the streaming *)
(* variant (isStreaming true, a stream handle, body null) or the buffered  *)
(* variant (isStreaming false, no stream handle, a body that is not null), *)
(* and it is the variant every chunk of the exchange was classified as:    *)
(* streaming when the chunks went to the stream, buffered when they went   *)
(* to the body chunks.                                                     *)
(***************************************************************************)
C13_OneVariantAsClassified ==
  \A e \in Exchanges :
    ex[e].promise.state = "resolved" =>
      LET v == ex[e].promise.value IN
        /\ \/ v.isStreaming /\ v.stream = "handle" /\ v.body.kind = "null"
           \/ ~v.isStreaming /\ v.stream = "none" /\ v.body.kind /= "null"
        /\ \A i \in 1..Len(trace[e]) :
             trace[e][i].sink /= "none" =>
               v.isStreaming = (trace[e][i].sink = "stream")

(***************************************************************************)
(* Vocabulary of the properties of the bridge.                             *)
(***************************************************************************)
NonBlankLine(line) == ~IsBlank(line)

\* the writes of the bridge that carry id
WritesFor(id) == { j \in 1..Len(stdout) : stdout[j].obj.id = id }

\* the progress notifications labelled for request id, in the order written
NotesFor(id) ==
  SelectSeq(stdout, LAMBDA w : w.obj.kind = "progress" /\ w.obj.token = id)

\* the lines handed to the parser that are requests, and those that are not
IsRequestLine(line) == ParseRequest(line).ok

(***************************************************************************)
(* C14. A complete input line that is not valid JSON is answered by        *)
(* exactly one error reply with id null; the process does not crash and    *)
(* the handler goes on to the lines after it.                              *)
(***************************************************************************)
C14_MalformedLineGetsErrorReply ==
  LET bad == { i \in 1..Len(parsed) : ~IsRequestLine(parsed[i]) }
      nulls == { j \in 1..Len(stdout) :
                   stdout[j].obj.kind = "error" /\ stdout[j].obj.id = "null" }
  IN /\ Cardinality(nulls) = Cardinality(bad)
     /\ bad /= {} => proc /= "crashed"
     /\ \A t \in 1..Len(tasks) :
          (tasks[t].pc = "aborted" /\ tasks[t].at <= Len(tasks[t].lines)) =>
            IsRequestLine(tasks[t].lines[tasks[t].at])

(***************************************************************************)
(* C15. Every well-formed request line handed to the parser is eventually  *)
(* answered by one line with its id, a result or an error, and never by    *)
(* two; a request that fails does not end the session.                     *)
(***************************************************************************)
C15_EveryRequestAnswered ==
  /\ \A id \in RequestIds :
       (\E i \in 1..Len(parsed) :
          IsRequestLine(parsed[i]) /\ ParseRequest(parsed[i]).request.id = id)
         ~> (Cardinality(WritesFor(id)) = 1)
  /\ [](\A id \in RequestIds : Cardinality(WritesFor(id)) <= 1)
  /\ [](proc /= "crashed")

(***************************************************************************)
(* C16. No result reply of the bridge carries the body of an error answer  *)
(* of the gateway (404 for an unknown tool, 500 for a failed or timed out  *)
(* dispatch) as the text of a streamed result.                             *)
(***************************************************************************)
C16_GatewayErrorIsNotAResult ==
  \A j \in 1..Len(stdout) :
    stdout[j].obj.kind = "result" =>
      \A a \in ErrorAnswers \cup { NotFoundAnswer } :
        \A n \in 0..(StreamLen + 1) :
          stdout[j].obj.text /= StreamingText(n, a.text)

(***************************************************************************)
(* C17. Whatever the reads the input arrives in, the buffer holds the      *)
(* unterminated tail of what was read, the lines handed to the parser are  *)
(* complete non-blank lines of the input in input order, and once no       *)
(* request is being handled they are all of them: none dropped, none       *)
(* parsed twice.                                                           *)
(***************************************************************************)
C17_SameLinesForEverySplit ==
  LET read == SubSeq(stdin.all, 1, stdin.pos)
      complete == SelectSeq(SplitBuffer(read).lines, NonBlankLine)
  IN /\ buffer = SplitBuffer(read).buffer
     /\ IsPrefix(parsed, complete)
     /\ (\A t \in 1..Len(tasks) : tasks[t].pc /= "awaiting") => parsed = complete

(***************************************************************************)
(* C18. The result reply of a streaming tools/call comes after all the     *)
(* progress notifications of its request; its total-chunk count is their   *)
(* number and its text is the concatenation of their messages in the       *)
(* order written.                                                          *)
(***************************************************************************)
C18_ProgressBeforeFinalReply ==
  \A k \in 1..Len(stdout) :
    LET w == stdout[k].obj IN
      (w.kind = "result"
         /\ \E i \in 1..Len(parsed) :
              /\ IsRequestLine(parsed[i])
              /\ ParseRequest(parsed[i]).request.id = w.id
              /\ ParseRequest(parsed[i]).request.method = "tools/call"
              /\ ParseRequest(parsed[i]).request.streaming) =>
        LET notes == NotesFor(w.id) IN
          /\ \A j \in 1..Len(stdout) :
               (stdout[j].obj.kind = "progress" /\ stdout[j].obj.token = w.id) => j < k
          /\ w.total = Len(notes)
          /\ w.text = StreamingText(Len(notes),
                                    Join([j \in 1..Len(notes) |-> notes[j].obj.text]))

(***************************************************************************)
(* C19. Of two progress notifications of one invocation the later one      *)
(* carries a strictly greater token than the earlier one.                  *)
(***************************************************************************)
C19_TokensIncrease ==
  \A j, k \in 1..Len(stdout) :
    (j < k
       /\ stdout[j].obj.kind = "progress" /\ stdout[k].obj.kind = "progress"
       /\ \E t \in 1..Len(tasks) :
            /\ tasks[t].request.id = stdout[j].obj.token
            /\ tasks[t].request.id = stdout[k].obj.token) =>
      (CHOOSE n \in 0..9 : Digit(n) = stdout[k].obj.token)
        > (CHOOSE n \in 0..9 : Digit(n) = stdout[j].obj.token)

(***************************************************************************)
(* C20. Every call of process.stdout.write writes one complete JSON line:  *)
(* the text of one object, which reads back as that object, then one       *)
(* newline and no other; the lines of requests in flight alternate as      *)
(* whole lines.                                                            *)
(***************************************************************************)
C20_WholeLinesOnly ==
  \A j \in 1..Len(stdout) :
    LET text == stdout[j].text
        line == SubSeq(text, 1, Len(text) - 1)
    IN /\ Len(text) > 1 /\ text[Len(text)] = "\n"
       /\ \A i \in 1..Len(line) : line[i] /= "\n"
       /\ ParseOutput(line) = stdout[j].obj

\* two streaming calls in flight, their notifications alternating, one of
\* them carrying a newline
C20_Witness ==
  /\ Len(stdout) >= 3
  /\ stdout[1].obj = ProgressUpdate("1", <<"a">>)
  /\ stdout[2].obj = ProgressUpdate("2", <<"a">>)
  /\ stdout[3].obj = ProgressUpdate("1", <<"\n">>)
  /\ \E t, u \in 1..Len(tasks) :
       t /= u /\ tasks[t].pc = "awaiting" /\ tasks[u].pc = "awaiting"

(***************************************************************************)
(* C21. After loadRoutes the catalog holds one tool per route, the i-th    *)
(* tool built from the i-th route, and /invoke resolves the title          *)
(* "METHOD path" and the identifier "METHOD_path" of every listed tool to  *)
(* a route that has the tool's method and path.                            *)
(***************************************************************************)
C21_EveryToolResolves ==
  LET rs == server.routes
      ts == server.tools
  IN /\ Len(ts) = Len(rs)
     /\ \A i \in 1..Len(ts) :
          /\ ts[i].route = [method |-> rs[i].method, path |-> rs[i].path]
          /\ ts[i].title = rs[i].method \o <<" ">> \o rs[i].path
          /\ \A form \in { ts[i].title, ts[i].name } :
               LET j == FindRoute(rs, form) IN
                 /\ j /= 0
                 /\ rs[j].method = ts[i].route.method
                 /\ rs[j].path = ts[i].route.path

(***************************************************************************)
(* C22. The title of a tool is "METHOD path" and its identifier is the     *)
(* title with every run of whitespace replaced by one "_"; both depend on  *)
(* the method and the path of the route alone, not on its handlers; and a  *)
(* rebuild from the current route table gives the same identifiers in the  *)
(* same order whatever catalog the server held before.                     *)
(***************************************************************************)
C22_NamesFromMethodAndPath ==
  LET rs == server.routes
      ts == server.tools
      blank(c) == c \in { " ", "\t", "\n" }
      \* the positions of a title that give a character of the identifier:
      \* every other character, and the first character of every blank run
      kept(t) == { i \in 1..Len(t) : ~blank(t[i]) \/ i = 1 \/ ~blank(t[i - 1]) }
      names(srv) == [i \in 1..Len(srv.tools) |-> srv.tools[i].name]
      table == ListRoutes(app, mcpOptions)
  IN /\ \A i \in 1..Len(ts) :
          LET t == rs[i].method \o <<" ">> \o rs[i].path IN
            /\ ts[i].title = t
            /\ Len(ts[i].name) = Cardinality(kept(t))
            /\ \A p \in kept(t) :
                 ts[i].name[Cardinality({ q \in kept(t) : q <= p })] =
                   IF blank(t[p]) THEN "_" ELSE t[p]
     /\ \A i, j \in 1..Len(ts) :
          (rs[i].method = rs[j].method /\ rs[i].path = rs[j].path) =>
            (ts[i].name = ts[j].name /\ ts[i].title = ts[j].title)
     /\ names(LoadRoutes(server, table)) = names(LoadRoutes(NewServer, table))
     /\ names(LoadRoutes(LoadRoutes(server, table), table))
          = names(LoadRoutes(server, table))
     /\ server.routes = table => names(LoadRoutes(server, table)) = names(server)

\* a catalog of two tools of the same method and path, a path with a run of
\* two blanks, built from routes with different handlers, while the app has
\* changed since the catalog was built
C22_Witness ==
  /\ Len(server.tools) = 2
  /\ server.tools[2].title = <<"G", "E", "T", " ", "/", " ", " ", "b">>
  /\ server.tools[2].name = <<"G", "E", "T", "_", "/", "_", "b">>
  /\ server.tools[1].title = server.tools[2].title
  /\ server.routes[1].kind /= server.routes[2].kind
  /\ server.routes /= ListRoutes(app, mcpOptions)

(***************************************************************************)
(* C23. A non-streaming invocation of the echo route with args A: the      *)
(* synthetic request has the route's method and path, A as its body, and   *)
(* A's JSON text followed by the end-of-input marker as its input; when    *)
(* the handler answers before the timer fires the reply is 200 {ok:true}   *)
(* with the decoded body the handler wrote, A, as result, and the status   *)
(* 200 the response started with.                                          *)
(***************************************************************************)
C23_EchoReturnsArgs ==
  \A e \in Exchanges :
    (~req[e].streaming /\ gw[e].route /= 0
       /\ server.routes[gw[e].route].kind = "echo") =>
      LET A == req[e].args IN
        /\ ex[e].request.method = server.routes[gw[e].route].method
        /\ ex[e].request.url = server.routes[gw[e].route].path
        /\ ex[e].request.body = A
        /\ ex[e].request.pushed = <<A, <<"null">> >>
        /\ (trace[e] /= <<>>) =>
             /\ ex[e].promise.state = "resolved"
             /\ ex[e].promise.value.status = 200
             /\ ex[e].promise.value.body = [kind |-> "json", text |-> A]
        /\ (gw[e].pc = "done" /\ trace[e] /= <<>>) =>
             /\ gw[e].reply.http = 200 /\ gw[e].reply.ok
             /\ gw[e].reply.result = [kind |-> "json", text |-> A]
             /\ gw[e].reply.status = 200
             /\ ~gw[e].reply.streaming
             /\ gw[e].reply.error.kind = "none"
             /\ gw[e].lines = <<>> /\ gw[e].ended = 1

\* the echo of the arguments 11 returned while another invocation runs
C23_Witness ==
  /\ ~req[2].streaming /\ req[2].args = <<"1", "1">>
  /\ gw[2].pc = "done" /\ gw[2].reply.ok
  /\ gw[2].reply.result = [kind |-> "json", text |-> <<"1", "1">>]
  /\ gw[1].pc = "awaiting"

(***************************************************************************)
(* C24. When a stage of the chain fails and its error rejects the          *)
(* dispatch, the gateway replies {ok:false, error: the error's message}    *)
(* with the status the handler had set on the response before it failed,   *)
(* and with 500 when the handler had set none.                             *)
(***************************************************************************)
C24_ErrorReplyKeepsHandlerStatus ==
  \A e \in Exchanges :
    (chain[e].state = "failed" /\ gw[e].pc = "done"
       /\ ex[e].promise.state = "rejected"
       /\ ex[e].promise.error.kind = "handler") =>
      /\ ~gw[e].reply.ok
      /\ gw[e].reply.error = [kind |-> "handler", ms |-> 0]
      /\ gw[e].reply.http = IF ex[e].statusCode /= 200 THEN ex[e].statusCode ELSE 500

C26_DisconnectTearsDown ==
  \A e \in Exchanges :
    gw[e].client = "gone" =>
      /\ ex[e].timer /= "armed"
      /\ gw[e].pc \notin { "relay", "collect" }

(***************************************************************************)
(* C27. A rebuild of the catalog replaces routes and tools in one step:    *)
(* in every state a request can observe, the tools are those of the        *)
(* routes held, one per route; the step of a rebuild touches no            *)
(* invocation; and an invocation that has resolved its route keeps the     *)
(* request and the chain of that route until it completes, whatever the    *)
(* catalog becomes.                                                        *)
(***************************************************************************)
C27_RebuildIsAtomic ==
  /\ [](/\ Len(server.tools) = Len(server.routes)
        /\ \A i \in 1..Len(server.tools) :
             /\ server.tools[i].route.method = server.routes[i].method
             /\ server.tools[i].route.path = server.routes[i].path
             /\ server.tools[i].title
                  = server.routes[i].method \o <<" ">> \o server.routes[i].path)
  /\ [][ /\ server' /= server =>
              (gw' = gw /\ ex' = ex /\ chain' = chain /\ trace' = trace
                 /\ options' = options)
         /\ \A e \in Exchanges :
              gw[e].pc /= "idle" =>
                /\ gw'[e].route = gw[e].route
                /\ ex'[e].request = ex[e].request
                /\ chain'[e].kind = chain[e].kind
                /\ chain'[e].stages = chain[e].stages
                /\ (gw'[e].pc = "done" /\ gw'[e].reply.ok /\ chain[e].kind = "echo") =>
                     gw'[e].reply.result = [kind |-> "json", text |-> req[e].args]
     ]_allvars

\* an invocation in flight, dispatched to the echo handler of a route that
\* the catalog, rebuilt since, no longer lists
C27_Witness ==
  \E e \in Exchanges :
    /\ gw[e].pc = "awaiting" /\ ex[e].promise.state = "pending"
    /\ chain[e].kind = "echo"
    /\ server.tools /= <<>>
    /\ \A i \in 1..Len(server.routes) :
         ~(server.routes[i].method = ex[e].request.method
             /\ server.routes[i].path = ex[e].request.url)

(***************************************************************************)
(* C28. What listRoutes returns for the app and the options of a state:    *)
(* the route/method pairs it discovers are those of the layers that hold   *)
(* a route and of the route layers inside a nested router, one pair per    *)
(* method of a route, in the order of the stack; a pair is listed exactly  *)
(* when the include filter, if configured, accepts it and the exclude      *)
(* filter, if configured, does not; with no filter every pair is listed.   *)
(***************************************************************************)
C28_ListedIffFiltersAllow ==
  LET listed == ListRoutes(app, mcpOptions)
      \* <<k, 0, m>>: method m of the route of layer k;
      \* <<k, j, m>>: method m of the route of layer j of the router in layer k
      routeAt(p) == IF p[2] = 0 THEN app[p[1]].route ELSE app[p[1]].stack[p[2]].route
      pairs ==
        { <<k, 0, m>> : k \in { k \in 1..Len(app) : app[k].hasRoute },
                        m \in 1..2 }
        \cup { <<k, j, m>> : k \in { k \in 1..Len(app) :
                                        ~app[k].hasRoute /\ app[k].name = "router" },
                             j \in 1..2, m \in 1..2 }
      discovered ==
        { p \in pairs :
            /\ p[2] > 0 => (p[2] <= Len(app[p[1]].stack)
                              /\ app[p[1]].stack[p[2]].hasRoute)
            /\ p[3] <= Len(routeAt(p).methods) }
      pairOf(p) == << ToUpperCase(routeAt(p).methods[p[3]]), routeAt(p).path >>
      allowed(p) ==
        /\ mcpOptions.include.configured => pairOf(p) \in mcpOptions.include.accepts
        /\ mcpOptions.exclude.configured => pairOf(p) \notin mcpOptions.exclude.accepts
      before(p, q) ==
        \/ p[1] < q[1]
        \/ p[1] = q[1] /\ p[2] < q[2]
        \/ p[1] = q[1] /\ p[2] = q[2] /\ p[3] <= q[3]
      exposed == { p \in discovered : allowed(p) }
      rank(p) == Cardinality({ q \in exposed : before(q, p) })
  IN /\ Len(listed) = Cardinality(exposed)
     /\ \A p \in exposed :
          /\ listed[rank(p)].method = pairOf(p)[1]
          /\ listed[rank(p)].path = pairOf(p)[2]
          /\ listed[rank(p)].kind = routeAt(p).kind
     /\ (~mcpOptions.include.configured /\ ~mcpOptions.exclude.configured) =>
          Len(listed) = Cardinality(discovered)
     /\ (server.routes = listed) => Len(server.tools) = Cardinality(exposed)

\* both filters configured, a route with two methods of which the include
\* filter accepts one, a nested router whose route the exclude filter
\* matches, and the catalog built from the one pair that is left
C28_Witness ==
  /\ mcpOptions.include.configured /\ mcpOptions.exclude.configured
  /\ Len(app) = 2
  /\ app[1].hasRoute /\ Len(app[1].route.methods) = 2
  /\ app[2].name = "router"
  /\ server.routes = ListRoutes(app, mcpOptions)
  /\ Len(server.tools) = 1
  /\ server.tools[1].title = <<"G", "E", "T", " ", "/", "_", "b">>

(***************************************************************************)
(* C29. In the Dispatch Result the handler's end resolved, every chunk     *)
(* that a write accepted, and the non-empty chunk of that end, is          *)
(* contained in call order: the decoded body is their concatenation when   *)
(* the result is buffered, the stream holds them when it is streaming.     *)
(***************************************************************************)
C29_NoAcceptedChunkDropped ==
  \A e \in Exchanges :
    (ex[e].promise.state = "resolved"
       /\ \E i \in 1..Len(trace[e]) : trace[e][i].op = "end") =>
      LET accepted == ChunksOf(trace[e]) IN
        IF ex[e].promise.value.isStreaming
        THEN Joined(ex[e].stream.written) = Joined(accepted)
        ELSE ex[e].promise.value.body.text = Joined(accepted)

(***************************************************************************)
(* C30. A dispatch hands out its stream only when the handler's end took   *)
(* effect: before that the gateway holds no stream and has written no      *)
(* chunk line, however many writes were accepted; and when the timer fires *)
(* before end the caller gets no line at all, only the timeout reply.      *)
(***************************************************************************)
C30_NoChunkLineBeforeEnd ==
  \A e \in Exchanges :
    LET ended == \E i \in 1..Len(trace[e]) : trace[e][i].op = "end" IN
      /\ ex[e].promise.value.stream = "handle" => ended
      /\ gw[e].source = "stream" => ended
      /\ (\E i \in 1..Len(gw[e].lines) : gw[e].lines[i].type = "chunk") => ended
      /\ gw[e].collected /= <<>> => ended
      /\ (ex[e].promise.state = "rejected" /\ ex[e].promise.error.kind = "timeout") =>
           /\ gw[e].lines = <<>> /\ gw[e].collected = <<>>
           /\ gw[e].pc \in { "awaiting", "done" }
           /\ gw[e].pc = "done" => gw[e].reply.error.kind = "timeout"

\* a streaming invocation whose two writes went to the stream and which got
\* the timeout reply and no line
C30_Witness ==
  \E e \in Exchanges :
    /\ req[e].streaming
    /\ Len(trace[e]) = 2
    /\ trace[e][1].op = "write" /\ trace[e][1].sink = "stream"
    /\ trace[e][2].op = "write" /\ trace[e][2].sink = "stream"
    /\ ex[e].stream.written = << <<"a">>, <<"1">> >>
    /\ ex[e].promise.error.kind = "timeout"
    /\ gw[e].pc = "done" /\ gw[e].lines = <<>>
    /\ gw[e].reply.http = 500

(***************************************************************************)
(* C31. The synthetic request of a gateway invocation is made of the route *)
(* and of args alone: its headers are exactly {content-type:               *)
(* application/json}, whatever headers the caller sent, so a token check   *)
(* in the chain sees no Authorization header and refuses every caller; and *)
(* two invocations that differ in their HTTP headers only get the same     *)
(* synthetic request, the same calls of the chain and the same reply.      *)
(***************************************************************************)
SameButHeaders(r, s) ==
  /\ r.present /\ s.present
  /\ r.toolName = s.toolName /\ r.args = s.args
  /\ r.streaming = s.streaming /\ r.timeout = s.timeout

C32_RepliesBeforeExit ==
  proc = "exited" =>
    \A t \in 1..Len(tasks) :
      /\ tasks[t].pc \notin { "awaiting", "ready" }
      /\ tasks[t].pc = "done" =>
           \A i \in 1..Len(tasks[t].lines) :
             IsRequestLine(tasks[t].lines[i]) =>
               WritesFor(ParseRequest(tasks[t].lines[i]).request.id) /= {}

(***************************************************************************)
(* C33. The bridge handles one request at a time: at most one call of the  *)
(* 'data' handler is suspended at a gateway call, and the reply lines are  *)
(* written in the order of their request lines on input, also when the     *)
(* lines arrive in different reads.                                        *)
(***************************************************************************)
C33_OneRequestAtATime ==
  LET n(id) == CHOOSE d \in 0..9 : Digit(d) = id IN
    /\ Cardinality({ t \in 1..Len(tasks) : tasks[t].pc = "awaiting" }) <= 1
    /\ \A j, k \in 1..Len(stdout) :
         (j < k /\ stdout[j].obj.kind = "result" /\ stdout[k].obj.kind = "result") =>
           n(stdout[j].obj.id) < n(stdout[k].obj.id)

(***************************************************************************)
(* C34. Whatever becomes of the GET /tools call of a tools/list request    *)
(* (no response, a timeout, an error status, a body that is not JSON),     *)
(* the handling of the request goes on to a result reply and never to the  *)
(* catch block: the step that ends the call writes one result reply with   *)
(* the request's id, with an empty tool list unless the gateway answered   *)
(* with its tools; no tools/list request is abandoned, and every line      *)
(* written for one is a result.                                            *)
(***************************************************************************)
IsToolsList(line) ==
  IsRequestLine(line) /\ ParseRequest(line).request.method = "tools/list"

C34_ToolsListNeverFails ==
  /\ [](\A t \in 1..Len(tasks) :
          /\ (tasks[t].pc = "aborted" /\ tasks[t].at <= Len(tasks[t].lines)) =>
               ~IsToolsList(tasks[t].lines[tasks[t].at])
          /\ \A i \in 1..Len(tasks[t].lines) :
               IsToolsList(tasks[t].lines[i]) =>
                 \A j \in WritesFor(ParseRequest(tasks[t].lines[i]).request.id) :
                   /\ stdout[j].obj.kind = "result"
                   /\ stdout[j].obj.text \in { ToolsText(0), ToolsText(Len(Routes)) })
  /\ [][\A t \in 1..Len(tasks) :
          (tasks[t].pc = "awaiting" /\ tasks[t].call.kind = "tools"
             /\ tasks'[t].call /= tasks[t].call) =>
            /\ proc' = "running"
            /\ Len(stdout') > Len(stdout)
            /\ stdout'[Len(stdout) + 1].obj \in
                 { ResultReply(tasks[t].request.id, 0, ToolsText(n)) :
                     n \in { 0, Len(Routes) } }
            /\ HttpFail(t) => stdout'[Len(stdout) + 1].obj.text = ToolsText(0)]_allvars

\* a tools/list request whose gateway call failed was answered with the
\* empty list, and the request after it with the tools of the gateway
C34_Witness ==
  /\ Len(parsed) = 2
  /\ IsToolsList(parsed[1]) /\ IsToolsList(parsed[2])
  /\ Len(stdout) = 2
  /\ stdout[1].obj = ResultReply("1", 0, ToolsText(0))
  /\ stdout[2].obj = ResultReply("2", 0, ToolsText(Len(Routes)))

(***************************************************************************)
(* C35. When the last stage calls next() without an error, no stage having *)
(* finalized the response and the timer not having fired, the dispatch     *)
(* resolves with a non-streaming result that carries the status of that    *)
(* moment and no body, whatever was written before; the headers are left   *)
(* as they are (the result holds the res.headers object itself), the timer *)
(* is cancelled, and from then on no write or end changes the result, the  *)
(* body chunks or the stream.                                              *)
(***************************************************************************)
FellThrough(e) ==
  /\ chain[e].state = "finished"
  /\ \A i \in 1..Len(trace[e]) : trace[e][i].op /= "end"

C35_FallThroughResolvesEmpty ==
  /\ [](\A e \in Exchanges :
          (FellThrough(e) /\ ~TimedOut(ex[e])) =>
            /\ ex[e].promise.state = "resolved"
            /\ ex[e].promise.value.body = BodyUndefined
            /\ ~ex[e].promise.value.isStreaming
            /\ ex[e].promise.value.stream = "none"
            /\ ex[e].timer = "cleared"
            /\ ex[e].hasEnded)
  /\ [][ \A e \in Exchanges :
           /\ (chain[e].state = "running" /\ chain'[e].state = "finished"
                 /\ ~ex[e].hasEnded) =>
                /\ ex'[e].promise.value.status = ex[e].statusCode
                /\ ex'[e].headers = ex[e].headers
                /\ ex'[e].statusCode = ex[e].statusCode
           /\ (FellThrough(e) /\ ~TimedOut(ex[e])) =>
                /\ ex'[e].promise = ex[e].promise
                /\ ex'[e].bodyChunks = ex[e].bodyChunks
                /\ ex'[e].stream = ex[e].stream
                /\ ex'[e].isStreamingResponse = ex[e].isStreamingResponse
                /\ trace'[e] = trace[e]
     ]_allvars

\* a chain that set the status 401, wrote a chunk and fell through: the
\* result carries 401 and no body, and a write after it was refused
C35_Witness ==
  \E e \in Exchanges :
    /\ FellThrough(e)
    /\ Len(trace[e]) = 1 /\ trace[e][1].op = "write"
    /\ ex[e].promise.state = "resolved"
    /\ ex[e].promise.value.status = 401
    /\ ex[e].promise.value.body = BodyUndefined
    /\ ex[e].timer = "cleared"
    /\ ex[e].ret = "false"

\* C35 as stated: a chain that runs to completion before any stage
\* finalized the response always resolves the dispatch and cancels its timer
C35_FallThroughAlwaysResolves ==
  \A e \in Exchanges :
    FellThrough(e) =>
      /\ ex[e].promise.state = "resolved"
      /\ ex[e].promise.value.body = BodyUndefined
      /\ ~ex[e].promise.value.isStreaming
      /\ ex[e].timer = "cleared"

(***************************************************************************)
(* C36. The tools of the catalog have pairwise distinct identifiers and    *)
(* pairwise distinct titles, and the identifier and the title of a tool    *)
(* resolve to the route the tool was built from.                           *)
(***************************************************************************)
C36_NamesAreDistinct ==
  /\ \A i, j \in 1..Len(server.tools) :
       i /= j => /\ server.tools[i].name /= server.tools[j].name
                 /\ server.tools[i].title /= server.tools[j].title
  /\ \A i \in 1..Len(server.tools) :
       /\ FindRoute(server.routes, server.tools[i].name) = i
       /\ FindRoute(server.routes, server.tools[i].title) = i

====
